---- MODULE Spec2Model ----
(***************************************************************************)
(* A model of pyoauth's OAuth 1.0 client (pyoauth/oauth1/client) and of   *)
(* its signature utilities (pyoauth/utils.py).                            *)
(*                                                                         *)
(* Text is modelled in two ways.  Parameter names are sequences of tokens  *)
(* (<<"oauth_", "token">>), so that a prefix test is a test on the text.   *)
(* The utilities work on sequences of one-character strings.  Parameter    *)
(* values of the client are atomic strings.  `None` and the empty value    *)
(* are one value wherever the code only tests truthiness.                  *)
(***************************************************************************)
EXTENDS Integers, Sequences, FiniteSets, TLC

VARIABLES
    cfg,        \* the Client object: _strict, _use_authorization_header and the
                \* authorization and authentication endpoints it was given
    hdrs,       \* the headers mapping the caller owns and passes to the calls
    calls,      \* number of exchange operations invoked so far
    last,       \* the last invocation: its arguments and what it did
    pending,    \* continuations registered with an asynchronous transport
    cb,         \* invocations of the caller's continuation since the last call
    parsed,     \* the last direct call of a response parser
    bs,         \* the call of a function of pyoauth/utils.py
    redirect,   \* the last URL built for redirecting the resource owner
    transport   \* the number of requests handed to the transport so far

vars == <<cfg, hdrs, calls, last, pending, cb, parsed, bs, redirect, transport>>

(***************************************************************************)
(* Bounds of the model.                                                    *)
(***************************************************************************)
MaxCalls == 2

(***************************************************************************)
(* Generic helpers: options, dictionaries, exceptions.                     *)
(***************************************************************************)
None == <<>>
Some(x) == <<x>>

EmptyDict == [k \in {} |-> <<>>]

\* d1 updated with d2 (dict.update): keys of d2 replace those of d1
DictUpdate(d1, d2) ==
    [k \in (DOMAIN d1) \cup (DOMAIN d2) |-> IF k \in DOMAIN d2 THEN d2[k] ELSE d1[k]]

DictSet(d, k, v) == [x \in (DOMAIN d) \cup {k} |-> IF x = k THEN v ELSE d[x]]

Restrict(d, S) == [k \in S |-> d[k]]

StartsWith(s, p) == Len(s) >= Len(p) /\ SubSeq(s, 1, Len(p)) = p

NoError == [type |-> "none", site |-> "none"]
Error(t, s) == [type |-> t, site |-> s]

(***************************************************************************)
(* pyoauth.constants and pyoauth.oauth1 (names used by the client).        *)
(***************************************************************************)
OAUTH_PARAM_PREFIX == <<"oauth_">>
OAUTH_PARAM_CONSUMER_KEY == <<"oauth_", "consumer_key">>
OAUTH_PARAM_SIGNATURE_METHOD == <<"oauth_", "signature_method">>
OAUTH_PARAM_TIMESTAMP == <<"oauth_", "timestamp">>
OAUTH_PARAM_NONCE == <<"oauth_", "nonce">>
OAUTH_PARAM_VERSION == <<"oauth_", "version">>
OAUTH_PARAM_SIGNATURE == <<"oauth_", "signature">>
OAUTH_PARAM_TOKEN == <<"oauth_", "token">>
OAUTH_PARAM_TOKEN_SECRET == <<"oauth_", "token_secret">>
OAUTH_PARAM_CALLBACK == <<"oauth_", "callback">>
OAUTH_PARAM_CALLBACK_CONFIRMED == <<"oauth_", "callback_confirmed">>
OAUTH_PARAM_VERIFIER == <<"oauth_", "verifier">>
OAUTH_VALUE_CALLBACK_CONFIRMED == "true"
OAUTH_VALUE_CALLBACK_OOB == "oob"
OAUTH_VERSION_1 == "1.0"

HTTP_GET == "GET"
HTTP_POST == "POST"
HEADER_AUTHORIZATION == "authorization"
HEADER_AUTHORIZATION_CAPS == "Authorization"
HEADER_CONTENT_TYPE == "content-type"
HEADER_CONTENT_TYPE_CAPS == "Content-Type"
HEADER_CONTENT_LENGTH == "content-length"
HEADER_CONTENT_LENGTH_CAPS == "Content-Length"
CONTENT_TYPE_FORM_URLENCODED == "application/x-www-form-urlencoded"

SIGNATURE_METHOD_HMAC_SHA1 == "HMAC-SHA1"
SIGNATURE_METHOD_RSA_SHA1 == "RSA-SHA1"
SIGNATURE_METHOD_PLAINTEXT == "PLAINTEXT"

\* SIGNATURE_METHOD_MAP: the keys of the dispatch table
SIGNATURE_METHOD_MAP ==
    {SIGNATURE_METHOD_HMAC_SHA1, SIGNATURE_METHOD_RSA_SHA1, SIGNATURE_METHOD_PLAINTEXT}

(***************************************************************************)
(* pyoauth.url, pyoauth.http, pyoauth.oauth1.protocol: helpers the client  *)
(* imports.  A query is a mapping name -> sequence of values.  A query     *)
(* string (of a URL or of an entity body) is a sequence of segments, each  *)
(* the sorted encoding of one query, so a segment is given by its mapping. *)
(***************************************************************************)
IsOAuthName(k) == StartsWith(k, OAUTH_PARAM_PREFIX)

\* query_unflatten on a mapping name -> scalar: every value becomes a list
query_unflatten(d) == [k \in DOMAIN d |-> <<d[k]>>]

\* query_remove_oauth: drop every name with the oauth_ prefix
query_remove_oauth(q) == Restrict(q, {k \in DOMAIN q : ~IsOAuthName(k)})

\* request_query_remove_non_oauth: keep only the names with the oauth_ prefix
request_query_remove_non_oauth(d) ==
    Restrict(query_unflatten(d), {k \in DOMAIN d : IsOAuthName(k)})

\* query_add: merge two queries, same-named values are concatenated
query_add(q1, q2) ==
    [k \in (DOMAIN q1) \cup (DOMAIN q2) |->
        (IF k \in DOMAIN q1 THEN q1[k] ELSE <<>>) \o (IF k \in DOMAIN q2 THEN q2[k] ELSE <<>>)]

RECURSIVE MergeSegments(_)
MergeSegments(segs) ==
    IF segs = <<>> THEN EmptyDict
    ELSE query_add(Head(segs), MergeSegments(Tail(segs)))

\* parse_qs on a query string made of segments
parse_qs(segs) == MergeSegments(segs)

\* query_append: the non-empty queries, each encoded, joined one after another
query_append(q1, q2) ==
    (IF DOMAIN q1 = {} THEN <<>> ELSE <<q1>>) \o (IF DOMAIN q2 = {} THEN <<>> ELSE <<q2>>)

\* url_add_query: the URL's query merged with the given one and re-encoded
url_add_query(url, q) ==
    LET m == query_add(MergeSegments(url.query), q)
    IN  [url EXCEPT !.query = IF DOMAIN m = {} THEN <<>> ELSE <<m>>]

\* url_append_query: the given query encoded and appended after the URL's own
url_append_query(url, q) ==
    IF DOMAIN q = {} THEN url ELSE [url EXCEPT !.query = @ \o <<q>>]

\* oauth_url_sanitize: the URL without the oauth_ parameters of its query
oauth_url_sanitize(url) ==
    LET m == query_remove_oauth(MergeSegments(url.query))
    IN  [url EXCEPT !.query = IF DOMAIN m = {} THEN <<>> ELSE <<m>>]

\* generate_authorization_header: the content of the OAuth header value
generate_authorization_header(oauth_params, realm) ==
    [scheme |-> "OAuth", realm |-> realm, params |-> oauth_params]

\* str.upper on the method names the model uses
Upper(m) ==
    CASE m = "get" -> "GET"
      [] m = "post" -> "POST"
      [] m = "typo" -> "TYPO"
      [] OTHER -> m

HTTP_METHODS ==
    {"POST", "PUT", "GET", "DELETE", "OPTIONS", "TRACE", "HEAD", "CONNECT", "PATCH"}

\* generate_base_string: method, URL without query, merged parameters
generate_base_string(method, url, oauth_params) ==
    IF Upper(method) \notin HTTP_METHODS
    THEN [err |-> Error("InvalidHttpMethodError", "generate_base_string"), text |-> None]
    ELSE [err |-> NoError,
          text |-> Some([method |-> Upper(method),
                         url |-> url.base,
                         params |-> query_add(MergeSegments(url.query),
                                      query_unflatten(Restrict(oauth_params,
                                          (DOMAIN oauth_params) \ {OAUTH_PARAM_SIGNATURE})))])]

\* the three signature functions: a signature is given by what it is made from
generate_hmac_sha1_signature(base_string, client_secret, token_secret) ==
    [alg |-> SIGNATURE_METHOD_HMAC_SHA1, key |-> <<client_secret, token_secret>>,
     text |-> Some(base_string)]

generate_rsa_sha1_signature(base_string, client_secret, token_secret) ==
    [alg |-> SIGNATURE_METHOD_RSA_SHA1, key |-> <<client_secret, "">>,
     text |-> Some(base_string)]

generate_plaintext_signature(base_string, client_secret, token_secret) ==
    [alg |-> SIGNATURE_METHOD_PLAINTEXT, key |-> <<client_secret, token_secret>>,
     text |-> None]

sign_func(signature_method, base_string, client_secret, token_secret) ==
    CASE signature_method = SIGNATURE_METHOD_HMAC_SHA1 ->
            generate_hmac_sha1_signature(base_string, client_secret, token_secret)
      [] signature_method = SIGNATURE_METHOD_RSA_SHA1 ->
            generate_rsa_sha1_signature(base_string, client_secret, token_secret)
      [] signature_method = SIGNATURE_METHOD_PLAINTEXT ->
            generate_plaintext_signature(base_string, client_secret, token_secret)

\* len(body): one byte per token of a name, per '=', per value, per '&'
RECURSIVE SeqSum(_)
SeqSum(s) == IF s = <<>> THEN 0 ELSE Head(s) + SeqSum(Tail(s))

RECURSIVE SetSum(_, _)
SetSum(S, f) ==
    IF S = {} THEN 0
    ELSE LET x == CHOOSE y \in S : TRUE IN f[x] + SetSum(S \ {x}, f)

SegmentPairs(q) == SetSum(DOMAIN q, [k \in DOMAIN q |-> Len(q[k])])

SegmentLength(q) ==
    SetSum(DOMAIN q, [k \in DOMAIN q |-> Len(q[k]) * (Len(k) + 2)]) + SegmentPairs(q) - 1

BodyLength(body) ==
    IF body = <<>> THEN 0
    ELSE SeqSum([i \in 1..Len(body) |-> SegmentLength(body[i])]) + Len(body) - 1

RequestAdapter(method, url, body, headers) ==
    [method |-> method, url |-> url, body |-> body, headers |-> headers]

(***************************************************************************)
(* _OAuthClient: request construction.  Every operator returns a record    *)
(* whose err field is NoError or the exception raised.                     *)
(***************************************************************************)

\* _OAuthClient.check_signature_method
check_signature_method(signature_method) ==
    IF signature_method \notin SIGNATURE_METHOD_MAP
    THEN Error("SignatureMethodNotSupportedError", "check_signature_method")
    ELSE NoError

\* as SignatureMethodInvalid, but only a missing method is refused
SignatureMethodInvalid_OnlyMissing(oauth_signature_method) == oauth_signature_method = ""

\* _generate_oauth_params, line 134: the signature method is not in the table
SignatureMethodInvalid(oauth_signature_method) ==
    oauth_signature_method \notin SIGNATURE_METHOD_MAP

\* as OverridesSignature, but the name compared is that of the signature method
OverridesSignature_WrongName(extra) == OAUTH_PARAM_SIGNATURE_METHOD \in DOMAIN extra

\* _generate_oauth_params, lines 156-159: an extra parameter names the signature
OverridesSignature(extra) == OAUTH_PARAM_SIGNATURE \in DOMAIN extra

\* _OAuthClient._generate_oauth_params
GenerateOAuthParams(oauth_consumer_key, oauth_signature_method, oauth_version, oauth_nonce, oauth_timestamp, oauth_token, extra_oauth_params) ==
    IF SignatureMethodInvalid(oauth_signature_method)
    THEN [err |-> Error("InvalidSignatureMethodError", "_generate_oauth_params"),
          oauth_params |-> EmptyDict]
    ELSE
        LET reserved ==
                (OAUTH_PARAM_CONSUMER_KEY :> oauth_consumer_key)
                @@ (OAUTH_PARAM_SIGNATURE_METHOD :> oauth_signature_method)
                @@ (OAUTH_PARAM_TIMESTAMP :> oauth_timestamp)
                @@ (OAUTH_PARAM_NONCE :> oauth_nonce)
            withToken ==
                IF oauth_token # "" THEN DictSet(reserved, OAUTH_PARAM_TOKEN, oauth_token)
                ELSE reserved
            withVersion ==
                IF oauth_version # "" THEN DictSet(withToken, OAUTH_PARAM_VERSION, oauth_version)
                ELSE withToken
            extra == request_query_remove_non_oauth(extra_oauth_params)
        IN  IF OverridesSignature(extra)
            THEN [err |-> Error("IllegalArgumentError", "_generate_oauth_params"),
                  oauth_params |-> EmptyDict]
            ELSE [err |-> NoError,
                  oauth_params |-> DictUpdate(withVersion, [k \in DOMAIN extra |-> extra[k][1]])]

\* as SignedParams, but the parameters of a body are taken whatever its content type
SignedParams_AnyContentType(params, body, headers) ==
    IF body # <<>> THEN query_add(params, query_remove_oauth(parse_qs(body))) ELSE params

\* _OAuthClient._generate_signature, lines 198-221: the parameters that are signed
SignedParams(params, body, headers) ==
    IF body # <<>>
       /\ (HEADER_CONTENT_TYPE \in DOMAIN headers \/ HEADER_CONTENT_TYPE_CAPS \in DOMAIN headers)
    THEN LET content_type ==
                 IF HEADER_CONTENT_TYPE \in DOMAIN headers
                 THEN headers[HEADER_CONTENT_TYPE]
                 ELSE headers[HEADER_CONTENT_TYPE_CAPS]
         IN  IF content_type = CONTENT_TYPE_FORM_URLENCODED
             THEN query_add(params, query_remove_oauth(parse_qs(body)))
             ELSE params
    ELSE params

\* _OAuthClient._generate_signature
GenerateSignature(method, url, params, body, headers, oauth_consumer_secret, oauth_token_secret, oauth_params) ==
    LET signature_url == url_add_query(url, query_remove_oauth(SignedParams(params, body, headers)))
        base_string == generate_base_string(method, signature_url, oauth_params)
        signature_method == oauth_params[OAUTH_PARAM_SIGNATURE_METHOD]
    IN  IF base_string.err # NoError
        THEN [err |-> base_string.err, signature |-> None]
        ELSE IF check_signature_method(signature_method) # NoError
        THEN [err |-> check_signature_method(signature_method), signature |-> None]
        ELSE [err |-> NoError,
              signature |-> Some(sign_func(signature_method, base_string.text[1],
                                           oauth_consumer_secret, oauth_token_secret))]

\* as AuthorizationPresent, but only the capitalised name is looked for
AuthorizationPresent_CapsOnly(headers) == HEADER_AUTHORIZATION_CAPS \in DOMAIN headers

\* _build_request, lines 271-272: the headers already hold an Authorization entry
AuthorizationPresent(headers) ==
    HEADER_AUTHORIZATION_CAPS \in DOMAIN headers \/ HEADER_AUTHORIZATION \in DOMAIN headers

\* as PlacedInQuery, but only a body sends the parameters to the query string
PlacedInQuery_OnlyWithBody(body, method) == body # <<>>

\* _build_request, line 284: the parameters go to the URL query string
PlacedInQuery(body, method) == body # <<>> \/ method = HTTP_GET

\* as GetWithBody, but only looked at when no content-length entry is there
GetWithBody_OnlyWithoutLength(body, method, headers) ==
    /\ body # <<>> /\ method = HTTP_GET
    /\ HEADER_CONTENT_LENGTH \notin DOMAIN headers
    /\ HEADER_CONTENT_LENGTH_CAPS \notin DOMAIN headers

\* _build_request, line 287: a GET request with an entity body
GetWithBody(body, method, headers) == body # <<>> /\ method = HTTP_GET

\* as ContentLengthMissing, but a body sent with no headers at all is let through
ContentLengthMissing_EmptyHeadersPass(body, headers) ==
    /\ body # <<>> /\ DOMAIN headers # {}
    /\ HEADER_CONTENT_LENGTH \notin DOMAIN headers
    /\ HEADER_CONTENT_LENGTH_CAPS \notin DOMAIN headers

\* _build_request, lines 291-293: a body whose length the caller did not give
ContentLengthMissing(body, headers) ==
    /\ body # <<>>
    /\ HEADER_CONTENT_LENGTH \notin DOMAIN headers
    /\ HEADER_CONTENT_LENGTH_CAPS \notin DOMAIN headers

\* _OAuthClient._build_request.  headers is the mapping the code writes into;
\* the headers field of the result is that mapping when the code returns or raises.
BuildRequest(method, url, params, body, headers, oauth_params, realm, use_authorization_header) ==
    IF AuthorizationPresent(headers)
    THEN [err |-> Error("InvalidAuthorizationHeaderError", "_build_request"),
          request |-> None, headers |-> headers]
    ELSE
        LET h1 == IF use_authorization_header
                  THEN DictSet(headers, HEADER_AUTHORIZATION_CAPS,
                               generate_authorization_header(oauth_params, realm))
                  ELSE headers
            \* oauth_params = None
            op1 == IF use_authorization_header THEN EmptyDict ELSE query_unflatten(oauth_params)
        IN  IF PlacedInQuery(body, method)
            THEN LET url1 == url_append_query(url_add_query(url, params), op1)
                 IN  IF GetWithBody(body, method, h1)
                     THEN [err |-> Error("InvalidHttpRequestError", "_build_request"),
                           request |-> None, headers |-> h1]
                     ELSE IF ContentLengthMissing(body, h1)
                     THEN [err |-> Error("ValueError", "_build_request"),
                           request |-> None, headers |-> h1]
                     ELSE [err |-> NoError,
                           request |-> Some(RequestAdapter(method, url1, body, h1)),
                           headers |-> h1]
            ELSE IF DOMAIN params # {} \/ DOMAIN op1 # {}
            THEN LET body1 == query_append(params, op1)
                     h2 == DictSet(DictSet(h1, HEADER_CONTENT_TYPE, CONTENT_TYPE_FORM_URLENCODED),
                                   HEADER_CONTENT_LENGTH, ToString(BodyLength(body1)))
                 IN  [err |-> NoError,
                      request |-> Some(RequestAdapter(method, url, body1, h2)),
                      headers |-> h2]
            ELSE LET h2 == DictSet(h1, HEADER_CONTENT_LENGTH, "0")
                 IN  [err |-> NoError,
                      request |-> Some(RequestAdapter(method, url, <<>>, h2)),
                      headers |-> h2]

\* partition_dict(lambda k, v: k.startswith(OAUTH_PARAM_PREFIX), kwargs)[0]
ExtraOAuthParams(kwargs) == Restrict(kwargs, {k \in DOMAIN kwargs : IsOAuthName(k)})

\* as RequestParams, but the parameters are taken as the caller gave them
RequestParams_AsGiven(params) == params

\* _OAuthClient._request, line 362: the query or payload parameters without
\* the oauth_ names (an empty mapping stays empty)
RequestParams(params) == query_remove_oauth(params)

\* _OAuthClient._request.  caller_headers is the caller's mapping (empty for None);
\* the headers field of the result is the caller's mapping after the call.
Request(client_credentials, method0, url0, params0, body, caller_headers, realm, use_authorization_header, auth_credentials, oauth_signature_method, oauth_version, kwargs, oauth_timestamp, oauth_nonce) ==
    LET method == Upper(method0)
        \* headers = headers or {}: a non-empty mapping is the caller's own object
        headers == caller_headers
        extra_oauth_params == ExtraOAuthParams(kwargs)
        params == RequestParams(params0)
        url == oauth_url_sanitize(url0)
        oauth_token == IF auth_credentials # None THEN auth_credentials[1].identifier ELSE ""
        oauth_token_secret ==
            IF auth_credentials # None THEN auth_credentials[1].shared_secret ELSE ""
        gen == GenerateOAuthParams(client_credentials.identifier, oauth_signature_method,
                                   oauth_version, oauth_nonce, oauth_timestamp,
                                   oauth_token, extra_oauth_params)
        sig == GenerateSignature(method, url, params, body, headers,
                                 client_credentials.shared_secret, oauth_token_secret,
                                 gen.oauth_params)
        signed_params == DictSet(gen.oauth_params, OAUTH_PARAM_SIGNATURE, sig.signature[1])
        built == BuildRequest(method, url, params, body, headers, signed_params, realm,
                              use_authorization_header)
    IN  IF gen.err # NoError
        THEN [err |-> gen.err, request |-> None, headers |-> caller_headers,
              signature |-> None]
        ELSE IF sig.err # NoError
        THEN [err |-> sig.err, request |-> None, headers |-> caller_headers,
              signature |-> None]
        ELSE [err |-> built.err, request |-> built.request,
              headers |-> IF DOMAIN caller_headers = {} THEN caller_headers ELSE built.headers,
              signature |-> sig.signature]

(***************************************************************************)
(* _OAuthClient: response parsing.  A response is                          *)
(*   [status, reason, body, headers, error, content_type]                  *)
(* with status 0, reason "", body <<>> and headers with no entry standing  *)
(* for a missing or empty field; its body is the sequence of name=value    *)
(* pairs as the server wrote them.  None is the response an asynchronous   *)
(* transport returns to the caller.                                        *)
(***************************************************************************)

\* ResponseAdapter.is_body_form_urlencoded
is_body_form_urlencoded(response) == response.content_type = CONTENT_TYPE_FORM_URLENCODED

\* parse_qs on a response body: name -> the values of that name, in order
RECURSIVE ParseQsPairs(_)
ParseQsPairs(pairs) ==
    IF pairs = <<>> THEN EmptyDict
    ELSE query_add((Head(pairs)[1] :> <<Head(pairs)[2]>>), ParseQsPairs(Tail(pairs)))

\* str.lower on the values the model uses
Lower(v) ==
    CASE v = "TRUE" -> "true"
      [] v = "True" -> "true"
      [] v = "FALSE" -> "false"
      [] OTHER -> v

Credentials(identifier, shared_secret) ==
    [identifier |-> identifier, shared_secret |-> shared_secret]

ParseFailure(t, s) == [err |-> Error(t, s), credentials |-> None, params |-> EmptyDict]

\* _parse_credentials_response, lines 568-580: the field that the message of
\* the InvalidHttpResponseError names, the first one found missing
InvalidResponseMessage(r) ==
    IF r.status = 0 THEN "Invalid status code"
    ELSE IF r.reason = "" THEN "Invalid status message"
    ELSE IF r.body = <<>> THEN "Body is invalid or empty"
    ELSE IF DOMAIN r.headers = {} THEN "Headers are invalid or not specified"
    ELSE "none"

\* the message of the error a parser raised, where the model keeps it
MessageOf(res, r) ==
    IF res.err.type = "InvalidHttpResponseError" THEN InvalidResponseMessage(r) ELSE "none"

\* as ResponseIncomplete, but the body is not looked at
ResponseIncomplete_BodyNotChecked(r) ==
    r.status = 0 \/ r.reason = "" \/ DOMAIN r.headers = {}

\* as ResponseIncomplete, but the headers are not looked at
ResponseIncomplete_NoHeaders(r) == r.status = 0 \/ r.reason = "" \/ r.body = <<>>

\* _parse_credentials_response, lines 568-580: a field is missing or empty
ResponseIncomplete(r) ==
    r.status = 0 \/ r.reason = "" \/ r.body = <<>> \/ DOMAIN r.headers = {}

\* as ContentTypeRejected, but lenient mode raises too
ContentTypeRejected_IgnoresStrict(r, strict) == ~is_body_form_urlencoded(r)

\* _parse_credentials_response, lines 587-598: the content type check raises
ContentTypeRejected(r, strict) == ~is_body_form_urlencoded(r) /\ strict

\* as CredentialsFrom, but the last value of each name is taken
CredentialsFrom_LastValues(params) ==
    Credentials(params[OAUTH_PARAM_TOKEN][Len(params[OAUTH_PARAM_TOKEN])],
                params[OAUTH_PARAM_TOKEN_SECRET][Len(params[OAUTH_PARAM_TOKEN_SECRET])])

\* _parse_credentials_response, lines 603-604: the credentials are the first
\* values of oauth_token and oauth_token_secret
CredentialsFrom(params) ==
    Credentials(params[OAUTH_PARAM_TOKEN][1], params[OAUTH_PARAM_TOKEN_SECRET][1])

\* as ParseCredentialsResponse, but the content type is checked before the error flag
ParseCredentialsResponse_ContentTypeFirst(response, strict) ==
    IF response = None
    THEN ParseFailure("AttributeError", "_parse_credentials_response")
    ELSE LET r == response[1] IN
    IF ResponseIncomplete(r)
    THEN ParseFailure("InvalidHttpResponseError", "_parse_credentials_response")
    ELSE IF ContentTypeRejected(r, strict)
    THEN ParseFailure("InvalidContentTypeError", "_parse_credentials_response")
    ELSE IF r.error THEN ParseFailure("HttpError", "_parse_credentials_response")
    ELSE LET params == ParseQsPairs(r.body) IN
         IF OAUTH_PARAM_TOKEN \notin DOMAIN params \/ OAUTH_PARAM_TOKEN_SECRET \notin DOMAIN params
         THEN ParseFailure("KeyError", "_parse_credentials_response")
         ELSE [err |-> NoError,
               credentials |-> Some(CredentialsFrom(params)),
               params |-> params]

\* _OAuthClient._parse_credentials_response
ParseCredentialsResponse(response, strict) ==
    IF response = None
    THEN ParseFailure("AttributeError", "_parse_credentials_response")
    ELSE LET r == response[1] IN
    IF ResponseIncomplete(r)
    THEN ParseFailure("InvalidHttpResponseError", "_parse_credentials_response")
    ELSE IF r.error THEN ParseFailure("HttpError", "_parse_credentials_response")
    ELSE IF ContentTypeRejected(r, strict)
    THEN ParseFailure("InvalidContentTypeError", "_parse_credentials_response")
    ELSE LET params == ParseQsPairs(r.body) IN
         IF OAUTH_PARAM_TOKEN \notin DOMAIN params \/ OAUTH_PARAM_TOKEN_SECRET \notin DOMAIN params
         THEN ParseFailure("KeyError", "_parse_credentials_response")
         ELSE [err |-> NoError,
               credentials |-> Some(CredentialsFrom(params)),
               params |-> params]

\* as CallbackUnconfirmed, but the value is compared as the server wrote it
CallbackUnconfirmed_NoLower(params) ==
    (IF OAUTH_PARAM_CALLBACK_CONFIRMED \in DOMAIN params
     THEN params[OAUTH_PARAM_CALLBACK_CONFIRMED][1]
     ELSE "") # OAUTH_VALUE_CALLBACK_CONFIRMED

\* parse_temporary_credentials_response, lines 509-511: the first value of
\* oauth_callback_confirmed, lower-cased, is not "true"
CallbackUnconfirmed(params) ==
    Lower(IF OAUTH_PARAM_CALLBACK_CONFIRMED \in DOMAIN params
          THEN params[OAUTH_PARAM_CALLBACK_CONFIRMED][1]
          ELSE "") # OAUTH_VALUE_CALLBACK_CONFIRMED

\* _OAuthClient.parse_temporary_credentials_response
ParseTemporaryCredentialsResponse(response, strict) ==
    LET res == ParseCredentialsResponse(response, strict)
    IN  IF res.err # NoError THEN res
        ELSE IF CallbackUnconfirmed(res.params) /\ strict
        THEN ParseFailure("ValueError", "parse_temporary_credentials_response")
        ELSE res

\* _OAuthClient.parse_token_credentials_response
ParseTokenCredentialsResponse(response, strict) == ParseCredentialsResponse(response, strict)

(***************************************************************************)
(* The responses a server can send.                                        *)
(***************************************************************************)
PARAM_A == <<"a">>
PARAM_B == <<"b">>

TokenPairs == << <<OAUTH_PARAM_TOKEN, "tok">>, <<OAUTH_PARAM_TOKEN_SECRET, "sec">> >>

ResponseBodies ==
    { <<>>,
      TokenPairs,
      TokenPairs \o << <<OAUTH_PARAM_CALLBACK_CONFIRMED, "true">> >>,
      TokenPairs \o << <<OAUTH_PARAM_CALLBACK_CONFIRMED, "false">> >>,
      TokenPairs \o << <<OAUTH_PARAM_CALLBACK_CONFIRMED, "TRUE">> >>,
      TokenPairs \o << <<OAUTH_PARAM_CALLBACK_CONFIRMED, "false">>,
                       <<OAUTH_PARAM_CALLBACK_CONFIRMED, "true">> >>,
      TokenPairs \o << <<OAUTH_PARAM_CALLBACK_CONFIRMED, "true">>,
                       <<OAUTH_PARAM_CALLBACK_CONFIRMED, "false">> >>,
      << <<OAUTH_PARAM_CALLBACK_CONFIRMED, "true">>, <<PARAM_A, "1">> >>,
      << <<OAUTH_PARAM_TOKEN, "tok">>, <<PARAM_A, "1">> >>,
      << <<OAUTH_PARAM_TOKEN, "tok">>, <<PARAM_A, "1">>, <<OAUTH_PARAM_TOKEN, "tok2">>,
         <<OAUTH_PARAM_TOKEN_SECRET, "sec">>, <<OAUTH_PARAM_CALLBACK_CONFIRMED, "true">> >> }

ResponseHeaders ==
    { EmptyDict, (HEADER_CONTENT_TYPE :> CONTENT_TYPE_FORM_URLENCODED) }

AllResponses ==
    [status : {0, 200}, reason : {"", "OK"}, body : ResponseBodies,
     headers : ResponseHeaders, error : BOOLEAN,
     content_type : {CONTENT_TYPE_FORM_URLENCODED, "text/html"}]

(***************************************************************************)
(* The parsers called on their own.                                        *)
(***************************************************************************)
NotParsed == [fn |-> "none"]

DoParseTemporaryCredentialsResponse ==
    \E response \in AllResponses, strict \in BOOLEAN :
        /\ parsed' = [fn |-> "parse_temporary_credentials_response",
                      response |-> response, strict |-> strict,
                      result |-> ParseTemporaryCredentialsResponse(Some(response), strict),
                      message |-> MessageOf(ParseTemporaryCredentialsResponse(Some(response), strict), response)]
        /\ UNCHANGED <<cfg, hdrs, calls, last, pending, cb, bs, redirect, transport>>

DoParseTokenCredentialsResponse ==
    \E response \in AllResponses, strict \in BOOLEAN :
        /\ parsed' = [fn |-> "parse_token_credentials_response",
                      response |-> response, strict |-> strict,
                      result |-> ParseTokenCredentialsResponse(Some(response), strict),
                      message |-> MessageOf(ParseTokenCredentialsResponse(Some(response), strict), response)]
        /\ UNCHANGED <<cfg, hdrs, calls, last, pending, cb, bs, redirect, transport>>

(***************************************************************************)
(* Client: the exchange operations.                                        *)
(***************************************************************************)
ClientCredentials == Credentials("9djdj82h48djs9d2", "consumer-secret")
TemporaryCredentials == Credentials("tmp-id", "tmp-secret")
TokenCredentials == Credentials("kkk9d7dh3k39sjv7", "token-secret")

Url(base, query) == [base |-> base, query |-> query]

\* Client.__init__: the endpoints, sanitized
TemporaryCredentialsUri == oauth_url_sanitize(Url("https://example.com/request_token", <<>>))
TokenCredentialsUri == oauth_url_sanitize(Url("https://example.com/access_token", <<>>))

\* is_valid_callback_url: an absolute URL or the out-of-band marker
AbsoluteUrls == {"http://client.example/cb"}
is_valid_callback_url(url) == url = OAUTH_VALUE_CALLBACK_OOB \/ url \in AbsoluteUrls

\* what the caller can pass
Methods == {"POST", "get", "TYPO"}
ParamsSet == {EmptyDict, (PARAM_A :> <<"1">>) @@ (OAUTH_PARAM_TOKEN :> <<"evil">>)}
BodySet == {<<>>, <<(PARAM_B :> <<"2">>)>>, <<(OAUTH_PARAM_TOKEN :> <<"evil">>)>>}
Realms == {"", "Example"}
SignatureMethods == {"HMAC-SHA1", "RSA-SHA1", "PLAINTEXT", "MD5"}
KwargsSet ==
    {EmptyDict, (OAUTH_PARAM_SIGNATURE :> "forged"), (OAUTH_PARAM_CALLBACK :> "http://client.example/cb"),
     (OAUTH_PARAM_TOKEN :> "evil")}
Callbacks == {"oob", "http://client.example/cb", "not a url"}
ResourceUrls ==
    {Url("http://example.com/photos", <<>>),
     Url("http://example.com/photos", <<(PARAM_A :> <<"0">>) @@ (OAUTH_PARAM_NONCE :> <<"evil">>)>>)}
Nonces == {"7d8f3e4a"}
Timestamps == {"137131201"}
HeaderSet ==
    {EmptyDict,
     (HEADER_CONTENT_LENGTH :> "3"),
     (HEADER_CONTENT_TYPE_CAPS :> CONTENT_TYPE_FORM_URLENCODED) @@ (HEADER_CONTENT_LENGTH_CAPS :> "3"),
     (HEADER_CONTENT_TYPE :> "text/plain") @@ (HEADER_CONTENT_LENGTH :> "3"),
     (HEADER_AUTHORIZATION :> [scheme |-> "Basic", realm |-> "", params |-> EmptyDict])}

\* the responses the transport returns in the exchanges
GoodBody == TokenPairs \o << <<OAUTH_PARAM_CALLBACK_CONFIRMED, "true">> >>
Responses ==
    { [status |-> 200, reason |-> "OK", body |-> GoodBody,
       headers |-> (HEADER_CONTENT_TYPE :> CONTENT_TYPE_FORM_URLENCODED),
       error |-> FALSE, content_type |-> CONTENT_TYPE_FORM_URLENCODED],
      [status |-> 200, reason |-> "OK", body |-> TokenPairs,
       headers |-> (HEADER_CONTENT_TYPE :> "text/html"),
       error |-> FALSE, content_type |-> "text/html"],
      [status |-> 200, reason |-> "Internal Server Error", body |-> GoodBody,
       headers |-> (HEADER_CONTENT_TYPE :> CONTENT_TYPE_FORM_URLENCODED),
       error |-> TRUE, content_type |-> CONTENT_TYPE_FORM_URLENCODED] }

\* the arguments of the three operations
TemporaryArgs ==
    [method : Methods, params : ParamsSet, body : BodySet, realm : Realms,
     async_callback : BOOLEAN, oauth_signature_method : SignatureMethods,
     kwargs : {k \in KwargsSet : OAUTH_PARAM_CALLBACK \notin DOMAIN k},
     oauth_callback : Callbacks, nonce : Nonces, timestamp : Timestamps]

TokenArgs ==
    [method : Methods, params : ParamsSet, body : BodySet, realm : Realms,
     async_callback : BOOLEAN, oauth_signature_method : SignatureMethods,
     kwargs : KwargsSet, temporary_credentials : {TemporaryCredentials},
     oauth_verifier : {"hfdp7dh39dks9884"}, nonce : Nonces, timestamp : Timestamps]

FetchArgs ==
    [method : Methods, params : ParamsSet, body : BodySet, realm : Realms,
     async_callback : BOOLEAN, oauth_signature_method : SignatureMethods,
     kwargs : KwargsSet, token_credentials : {TokenCredentials},
     url : ResourceUrls, nonce : Nonces, timestamp : Timestamps]

\* as UseAuthorizationHeader, but a lenient client never uses the header
UseAuthorizationHeader_WhenStrict(client) == client.use_authorization_header /\ client.strict

\* _OAuthClient._fetch, line 445: self._use_authorization_header
UseAuthorizationHeader(client) == client.use_authorization_header

\* _OAuthClient._fetch, lines 442-450, on the client object client
ClientRequest(client, method, url, params, body, headers, realm, auth_credentials, oauth_signature_method, kwargs, timestamp, nonce) ==
    Request(ClientCredentials, method, url, params, body, headers, realm,
            UseAuthorizationHeader(client), auth_credentials, oauth_signature_method,
            OAUTH_VERSION_1, kwargs, timestamp, nonce)

\* _OAuthClient._fetch, line 442: the request built for the transport
FetchRequest(method, url, params, body, headers, realm, auth_credentials, oauth_signature_method, kwargs, timestamp, nonce) ==
    ClientRequest(cfg, method, url, params, body, headers, realm, auth_credentials,
                  oauth_signature_method, kwargs, timestamp, nonce)

\* _http_client.fetch(request, async_callback): a blocking transport returns the
\* response; an asynchronous one returns nothing and keeps the continuation
TransportReturn(async, response) == IF async THEN None ELSE Some(response)

NoCall == [op |-> "none"]

\* as Fetched, but a response that fails parsing makes the engine send again
Fetched_AgainOnFailure(n, res) == IF res.err # NoError THEN n + 2 ELSE n + 1

\* _OAuthClient._fetch, line 451: the request is handed to the transport once,
\* whatever becomes of the response (res is what parsing it gives)
Fetched(n, res) == n + 1

\* the record of a call that raised before anything was handed to the transport;
\* headers is the caller's mapping as it was when the call was made
Raised(op, a, err, signature) ==
    [op |-> op, args |-> a, headers |-> hdrs, err |-> err, sent |-> FALSE, request |-> None,
     signature |-> signature, response |-> None, parses |-> 0,
     credentials |-> None, params |-> EmptyDict, returned |-> None]

\* the record of a call that handed its request to the transport
Sent(op, a, req, response, parses, res, returned) ==
    [op |-> op, args |-> a, headers |-> hdrs, err |-> res.err, sent |-> TRUE, request |-> req.request,
     signature |-> req.signature, response |-> response, parses |-> parses,
     credentials |-> res.credentials, params |-> res.params, returned |-> returned]

Continuation(op) == [op |-> op]

\* as CallbackRejected, but only the empty callback is refused
CallbackRejected_OnlyEmpty(oauth_callback) == oauth_callback = ""

\* fetch_temporary_credentials, line 687: the callback is not a valid one
CallbackRejected(oauth_callback) == ~is_valid_callback_url(oauth_callback)

\* as CallbackReserved, but the name looked for is oauth_signature
CallbackReserved_WrongName(kwargs) == OAUTH_PARAM_SIGNATURE \in DOMAIN kwargs

\* fetch_token_credentials, line 757: the caller passes oauth_callback
CallbackReserved(kwargs) == OAUTH_PARAM_CALLBACK \in DOMAIN kwargs

\* Client.fetch_temporary_credentials with arguments a; response is what the
\* transport answers
TemporaryCredentialsCall(a, response) ==
    LET op == "fetch_temporary_credentials"
        req == FetchRequest(a.method, TemporaryCredentialsUri, a.params, a.body, hdrs,
                            a.realm, None, a.oauth_signature_method,
                            DictSet(a.kwargs, OAUTH_PARAM_CALLBACK, a.oauth_callback),
                            a.timestamp, a.nonce)
        resp == TransportReturn(a.async_callback, response)
        res == ParseTemporaryCredentialsResponse(resp, cfg.strict)
    IN  IF CallbackRejected(a.oauth_callback)
        THEN /\ last' = Raised(op, a, Error("ValueError", op), None)
             /\ UNCHANGED <<hdrs, pending, transport>>
        ELSE IF req.err # NoError
        THEN /\ last' = Raised(op, a, req.err, req.signature)
             /\ hdrs' = req.headers
             /\ UNCHANGED <<pending, transport>>
        ELSE /\ last' = Sent(op, a, req, resp, 1, res, None)
             /\ transport' = Fetched(transport, res)
             /\ hdrs' = req.headers
             /\ pending' = IF a.async_callback THEN Append(pending, Continuation(op))
                           ELSE pending

\* Client.fetch_token_credentials
TokenCredentialsCall(a, response) ==
    LET op == "fetch_token_credentials"
        req == FetchRequest(a.method, TokenCredentialsUri, a.params, a.body, hdrs,
                            a.realm, Some(a.temporary_credentials), a.oauth_signature_method,
                            DictSet(a.kwargs, OAUTH_PARAM_VERIFIER, a.oauth_verifier),
                            a.timestamp, a.nonce)
        resp == TransportReturn(a.async_callback, response)
        res == ParseTokenCredentialsResponse(resp, cfg.strict)
    IN  IF CallbackReserved(a.kwargs)
        THEN /\ last' = Raised(op, a, Error("IllegalArgumentError", op), None)
             /\ UNCHANGED <<hdrs, pending, transport>>
        ELSE IF req.err # NoError
        THEN /\ last' = Raised(op, a, req.err, req.signature)
             /\ hdrs' = req.headers
             /\ UNCHANGED <<pending, transport>>
        ELSE /\ last' = Sent(op, a, req, resp, 1, res, None)
             /\ transport' = Fetched(transport, res)
             /\ hdrs' = req.headers
             /\ pending' = IF a.async_callback THEN Append(pending, Continuation(op))
                           ELSE pending

\* Client.fetch
FetchCall(a, response) ==
    LET op == "fetch"
        req == FetchRequest(a.method, a.url, a.params, a.body, hdrs,
                            a.realm, Some(a.token_credentials), a.oauth_signature_method,
                            a.kwargs, a.timestamp, a.nonce)
        resp == TransportReturn(a.async_callback, response)
    IN  IF req.err # NoError
        THEN /\ last' = Raised(op, a, req.err, req.signature)
             /\ hdrs' = req.headers
             /\ UNCHANGED <<pending, transport>>
        ELSE /\ last' = Sent(op, a, req, resp, 0,
                             [err |-> NoError, credentials |-> None, params |-> EmptyDict], resp)
             /\ transport' = Fetched(transport, [err |-> NoError])
             /\ hdrs' = req.headers
             /\ pending' = IF a.async_callback THEN Append(pending, Continuation(op))
                           ELSE pending

Call(op, a, response) ==
    CASE op = "fetch_temporary_credentials" -> TemporaryCredentialsCall(a, response)
      [] op = "fetch_token_credentials" -> TokenCredentialsCall(a, response)
      [] op = "fetch" -> FetchCall(a, response)

\* the answers of the transport that matter to a call: a call with a continuation
\* gets none
Answers(a) == IF a.async_callback THEN {CHOOSE r \in Responses : TRUE} ELSE Responses

FetchTemporaryCredentials ==
    /\ calls = 0
    /\ \E a \in TemporaryArgs : \E response \in Answers(a) :
           TemporaryCredentialsCall(a, response)
    /\ calls' = calls + 1
    /\ cb' = <<>>
    /\ UNCHANGED <<cfg, parsed, bs, redirect>>

FetchTokenCredentials ==
    /\ calls = 0
    /\ \E a \in TokenArgs : \E response \in Answers(a) :
           TokenCredentialsCall(a, response)
    /\ calls' = calls + 1
    /\ cb' = <<>>
    /\ UNCHANGED <<cfg, parsed, bs, redirect>>

Fetch ==
    /\ calls = 0
    /\ \E a \in FetchArgs : \E response \in Answers(a) :
           FetchCall(a, response)
    /\ calls' = calls + 1
    /\ cb' = <<>>
    /\ UNCHANGED <<cfg, parsed, bs, redirect>>

\* the caller makes the call it just made once more, with the same arguments
\* and the same headers mapping; nonce and timestamp are generated anew
Repeat ==
    /\ 0 < calls /\ calls < MaxCalls
    /\ pending = <<>>
    /\ \E n \in Nonces, t \in Timestamps :
         LET a == [last.args EXCEPT !.nonce = n, !.timestamp = t]
         IN  \E response \in Answers(a) : Call(last.op, a, response)
    /\ calls' = calls + 1
    /\ cb' = <<>>
    /\ UNCHANGED <<cfg, parsed, bs, redirect>>

\* the asynchronous transport completes a request: it invokes the continuation
\* it was given with the response
Deliver ==
    /\ pending # <<>>
    /\ \E response \in Responses :
         LET k == Head(pending)
             res == IF k.op = "fetch_temporary_credentials"
                    THEN ParseTemporaryCredentialsResponse(Some(response), cfg.strict)
                    ELSE ParseTokenCredentialsResponse(Some(response), cfg.strict)
         IN  cb' = Append(cb,
                    IF k.op = "fetch"
                    THEN [op |-> k.op, err |-> NoError, parses |-> 0, invoked |-> TRUE,
                          response |-> Some(response), credentials |-> None,
                          params |-> EmptyDict]
                    ELSE [op |-> k.op, err |-> res.err, parses |-> 1,
                          invoked |-> res.err = NoError, response |-> None,
                          credentials |-> res.credentials, params |-> res.params])
    /\ pending' = Tail(pending)
    /\ UNCHANGED <<cfg, hdrs, calls, last, parsed, bs, redirect, transport>>

\* as TokenMismatch, but the verifier is what is compared with the identifier
TokenMismatch_ComparesVerifier(temporary_credentials, oauth_token, oauth_verifier) ==
    temporary_credentials.identifier # oauth_verifier

\* check_verification_code, line 475: the token is not the credentials' identifier
TokenMismatch(temporary_credentials, oauth_token, oauth_verifier) ==
    temporary_credentials.identifier # oauth_token

\* _OAuthClient.check_verification_code
check_verification_code(temporary_credentials, oauth_token, oauth_verifier) ==
    IF TokenMismatch(temporary_credentials, oauth_token, oauth_verifier)
    THEN Error("InvalidHttpRequestError", "check_verification_code")
    ELSE NoError

\* what the server's redirect can bring back
VerificationCredentials == {TemporaryCredentials, Credentials("tmp-ID", "tmp-secret")}
ReturnedTokens == {"tmp-id", "tmp-ID", "tmp-secret", "hfdp7dh39dks9884", ""}
ReturnedVerifiers == {"hfdp7dh39dks9884", "tmp-id", ""}

CheckVerificationCode ==
    \E temporary_credentials \in VerificationCredentials,
       oauth_token \in ReturnedTokens, oauth_verifier \in ReturnedVerifiers :
        /\ parsed' = [fn |-> "check_verification_code",
                      temporary_credentials |-> temporary_credentials,
                      oauth_token |-> oauth_token, oauth_verifier |-> oauth_verifier,
                      err |-> check_verification_code(temporary_credentials, oauth_token,
                                                     oauth_verifier)]
        /\ UNCHANGED <<cfg, hdrs, calls, last, pending, cb, bs, redirect, transport>>

(***************************************************************************)
(* pyoauth/utils.py.  A string is a sequence of bytes (numbers 0..255).    *)
(***************************************************************************)
\* the printable ASCII characters, from 32 (space) to 126 (tilde); 96 is written out
ASCII ==
    <<" ", "!", "\"", "#", "$", "%", "&", "'", "(", ")", "*", "+",
       ",", "-", ".", "/", "0", "1", "2", "3", "4", "5", "6", "7",
       "8", "9", ":", ";", "<", "=", ">", "?", "@", "A", "B", "C",
       "D", "E", "F", "G", "H", "I", "J", "K", "L", "M", "N", "O",
       "P", "Q", "R", "S", "T", "U", "V", "W", "X", "Y", "Z", "[",
       "\\", "]", "^", "_", "grave", "a", "b", "c", "d", "e", "f", "g",
       "h", "i", "j", "k", "l", "m", "n", "o", "p", "q", "r", "s",
       "t", "u", "v", "w", "x", "y", "z", "{", "|", "}", "~" >>

Ord(c) == CHOOSE n \in 32..126 : ASCII[n - 31] = c

\* the bytes of a text written as a sequence of characters
B(chars) == [i \in 1..Len(chars) |-> Ord(chars[i])]

IsUpperLetter(b) == b \in 65..90
IsLowerLetter(b) == b \in 97..122
IsDigit(b) == b \in 48..57

\* str.upper, str.lower
StrUpper(s) == [i \in 1..Len(s) |-> IF IsLowerLetter(s[i]) THEN s[i] - 32 ELSE s[i]]
StrLower(s) == [i \in 1..Len(s) |-> IF IsUpperLetter(s[i]) THEN s[i] + 32 ELSE s[i]]

RECURSIVE Concat(_)
Concat(ss) == IF ss = <<>> THEN <<>> ELSE Head(ss) \o Concat(Tail(ss))

\* sep.join(parts)
RECURSIVE Join(_, _)
Join(sep, parts) ==
    IF parts = <<>> THEN <<>>
    ELSE IF Len(parts) = 1 THEN parts[1]
    ELSE parts[1] \o sep \o Join(sep, Tail(parts))

\* s.split(c): the pieces of s between the occurrences of the byte c
RECURSIVE Split(_, _)
Split(s, c) ==
    IF \A i \in 1..Len(s) : s[i] # c THEN <<s>>
    ELSE LET i == CHOOSE j \in 1..Len(s) : s[j] = c /\ \A k \in 1..(j - 1) : s[k] # c
         IN  <<SubSeq(s, 1, i - 1)>> \o Split(SubSeq(s, i + 1, Len(s)), c)

\* s.split(c, 1)
Split1(s, c) ==
    IF \A i \in 1..Len(s) : s[i] # c THEN <<s>>
    ELSE LET i == CHOOSE j \in 1..Len(s) : s[j] = c /\ \A k \in 1..(j - 1) : s[k] # c
         IN  <<SubSeq(s, 1, i - 1), SubSeq(s, i + 1, Len(s))>>

\* a < b for byte strings, as Python compares them
RECURSIVE StrLess(_, _)
StrLess(a, b) ==
    IF b = <<>> THEN FALSE
    ELSE IF a = <<>> THEN TRUE
    ELSE IF Head(a) # Head(b) THEN Head(a) < Head(b)
    ELSE StrLess(Tail(a), Tail(b))

\* (k1, v1) < (k2, v2) for tuples of two byte strings
PairLess(p, q) == StrLess(p[1], q[1]) \/ (p[1] = q[1] /\ StrLess(p[2], q[2]))

RECURSIVE Insert(_, _)
Insert(p, sorted) ==
    IF sorted = <<>> THEN <<p>>
    ELSE IF PairLess(p, Head(sorted)) THEN <<p>> \o sorted
    ELSE <<Head(sorted)>> \o Insert(p, Tail(sorted))

\* as Sorted, but the pairs stay in the order they were collected in
Sorted_AsGiven(pairs) == pairs

\* sorted(pairs)
RECURSIVE Sorted(_)
Sorted(pairs) == IF pairs = <<>> THEN <<>> ELSE Insert(Head(pairs), Sorted(Tail(pairs)))

HexDigits == B(<<"0", "1", "2", "3", "4", "5", "6", "7", "8", "9", "A", "B", "C", "D", "E", "F">>)

\* as IsUnreserved, with the slash urllib.quote leaves alone by default
IsUnreserved_AlsoSlash(b) ==
    IsUpperLetter(b) \/ IsLowerLetter(b) \/ IsDigit(b) \/ b \in {45, 46, 47, 95, 126}

\* as IsUnreserved, with the plus sign
IsUnreserved_AlsoPlus(b) ==
    IsUpperLetter(b) \/ IsLowerLetter(b) \/ IsDigit(b) \/ b \in {43, 45, 46, 95, 126}

\* the always_safe characters of urllib.quote, and the tilde oauth_escape adds
IsUnreserved(b) ==
    IsUpperLetter(b) \/ IsLowerLetter(b) \/ IsDigit(b) \/ b \in {45, 46, 95, 126}

\* oauth_escape: urllib.quote(val, safe="~")
oauth_escape(val) ==
    Concat([i \in 1..Len(val) |->
              IF IsUnreserved(val[i]) THEN <<val[i]>>
              ELSE <<37, HexDigits[(val[i] \div 16) + 1], HexDigits[(val[i] % 16) + 1]>>])

\* unicode.encode("utf-8") for code points below 2048
Utf8(points) ==
    Concat([i \in 1..Len(points) |->
              IF points[i] < 128 THEN <<points[i]>>
              ELSE <<192 + (points[i] \div 64), 128 + (points[i] % 64)>>])

\* oauth_escape, lines 173-174: a Unicode string is encoded to UTF-8, a byte
\* string is taken as it is
Encoded(val) == IF val.unicode THEN Utf8(val.chars) ELSE val.chars

IsHex(b) == IsDigit(b) \/ b \in 65..70 \/ b \in 97..102
HexValue(b) == IF IsDigit(b) THEN b - 48 ELSE IF b \in 65..70 THEN b - 55 ELSE b - 87

\* urllib.unquote: every %XX with two hex digits becomes the byte XX
RECURSIVE Unquote(_)
Unquote(s) ==
    IF s = <<>> THEN <<>>
    ELSE IF s[1] = 37 /\ Len(s) >= 3 /\ IsHex(s[2]) /\ IsHex(s[3])
    THEN <<16 * HexValue(s[2]) + HexValue(s[3])>> \o Unquote(SubSeq(s, 4, Len(s)))
    ELSE <<s[1]>> \o Unquote(Tail(s))

\* s.replace('+', ' ')
PlusToSpace(s) == [i \in 1..Len(s) |-> IF s[i] = 43 THEN 32 ELSE s[i]]

\* urlparse.parse_qsl(qs, keep_blank_values=True): the (name, value) pairs of qs
ParseQsl(qs) ==
    LET fields == Concat([i \in 1..Len(Split(qs, 38)) |-> Split(Split(qs, 38)[i], 59)])
        present == SelectSeq(fields, LAMBDA f : f # <<>>)
    IN  [i \in 1..Len(present) |->
            LET nv == Split1(present[i], 61)
            IN  <<Unquote(PlusToSpace(nv[1])),
                  IF Len(nv) = 2 THEN Unquote(PlusToSpace(nv[2])) ELSE <<>> >>]

\* a parameter value: a string, a number, or a sequence of strings and numbers
StrValue(s) == [kind |-> "str", str |-> s, n |-> 0, items |-> <<>>]
IntValue(n) == [kind |-> "int", str |-> <<>>, n |-> n, items |-> <<>>]
ListValue(items) == [kind |-> "list", str |-> <<>>, n |-> 0, items |-> items]

\* oauth_parse_qs: name -> list of the values of that name, in order
RECURSIVE PairsToDict(_)
PairsToDict(pairs) ==
    IF pairs = <<>> THEN EmptyDict
    ELSE LET front == PairsToDict(SubSeq(pairs, 1, Len(pairs) - 1))
             p == pairs[Len(pairs)]
         IN  DictSet(front, p[1],
                     IF p[1] \in DOMAIN front
                     THEN ListValue(Append(front[p[1]].items, StrValue(p[2])))
                     ELSE ListValue(<<StrValue(p[2])>>))

oauth_parse_qs(qs) == PairsToDict(ParseQsl(qs))

\* str(n) for a natural number
RECURSIVE IntToStr(_)
IntToStr(n) == IF n < 10 THEN <<48 + n>> ELSE IntToStr(n \div 10) \o <<48 + (n % 10)>>

\* a string as it is, anything else through str()
AsString(v) == IF v.kind = "str" THEN v.str ELSE IntToStr(v.n)

\* oauth_get_normalized_query_string, lines 643-662: the encoded pairs of one name
EncodedPairsOf(k, v) ==
    LET ek == oauth_escape(k) IN
    IF ek \in {B(<<"o","a","u","t","h","_","s","i","g","n","a","t","u","r","e">>),
               B(<<"r","e","a","l","m">>)}
    THEN <<>>
    ELSE IF v.kind = "str" THEN << <<ek, oauth_escape(v.str)>> >>
    ELSE IF v.kind = "int" THEN << <<ek, oauth_escape(IntToStr(v.n))>> >>
    ELSE [i \in 1..Len(v.items) |-> <<ek, oauth_escape(AsString(v.items[i]))>>]

RECURSIVE EncodedPairs(_, _)
EncodedPairs(names, query_params) ==
    IF names = {} THEN <<>>
    ELSE LET k == CHOOSE x \in names : TRUE
         IN  EncodedPairsOf(k, query_params[k]) \o EncodedPairs(names \ {k}, query_params)

\* oauth_get_normalized_query_string
oauth_get_normalized_query_string(query_params) ==
    IF DOMAIN query_params = {} THEN <<>>
    ELSE LET sorted == Sorted(EncodedPairs(DOMAIN query_params, query_params))
         IN  Join(<<38>>, [i \in 1..Len(sorted) |-> sorted[i][1] \o <<61>> \o sorted[i][2]])

\* oauth_get_normalized_url_and_query_params; url is what urlparse makes of it:
\* [scheme, netloc, path, params, query, fragment]
oauth_get_normalized_url_and_query_params(url) ==
    [normalized_url |-> StrLower(url.scheme) \o B(<<":", "/", "/">>) \o StrLower(url.netloc)
                        \o url.path,
     query_params |-> oauth_parse_qs(url.query)]

allowed_methods ==
    {B(<<"P","O","S","T">>), B(<<"P","U","T">>), B(<<"G","E","T">>),
     B(<<"D","E","L","E","T","E">>), B(<<"O","P","T","I","O","N","S">>),
     B(<<"T","R","A","C","E">>), B(<<"H","E","A","D">>),
     B(<<"C","O","N","N","E","C","T">>), B(<<"P","A","T","C","H">>)}

\* oauth_get_signature_base_string, line 508: url_query_params.update(query_params)
MergeParams(url_query_params, query_params) == DictUpdate(url_query_params, query_params)

\* as MethodNormalized, but the method is taken as it is written
MethodNormalized_AsGiven(method) == method

\* oauth_get_signature_base_string, line 504: method.upper()
MethodNormalized(method) == StrUpper(method)

\* as BaseStringOf, but the parameter string is joined as it is
BaseStringOf_QueryAsIs(method_normalized, normalized_url, query_string) ==
    Join(<<38>>, <<oauth_escape(method_normalized), oauth_escape(normalized_url), query_string>>)

\* oauth_get_signature_base_string, line 510: the three parts, each escaped
BaseStringOf(method_normalized, normalized_url, query_string) ==
    Join(<<38>>, <<oauth_escape(method_normalized), oauth_escape(normalized_url),
                   oauth_escape(query_string)>>)

\* oauth_get_signature_base_string
oauth_get_signature_base_string(method, url, query_params) ==
    LET method_normalized == MethodNormalized(method)
        normalized == oauth_get_normalized_url_and_query_params(url)
        query_string == oauth_get_normalized_query_string(
                            MergeParams(normalized.query_params, query_params))
    IN  IF method_normalized \notin allowed_methods
        THEN [err |-> Error("ValueError", "oauth_get_signature_base_string"), value |-> <<>>]
        ELSE [err |-> NoError,
              value |-> BaseStringOf(method_normalized, normalized.normalized_url,
                                     query_string)]

\* arguments of the base string functions
BaseMethods == {B(<<"P","O","S","T">>), B(<<"g","e","t">>), B(<<"T","Y","P","O">>)}

BaseUrl(query) ==
    [scheme |-> B(<<"H","T","T","P">>), netloc |-> B(<<"E","x","a","m","p","l","e",".","c","o","m">>),
     path |-> B(<<"/","r">>), params |-> <<>>, query |-> query, fragment |-> <<>>]

BaseUrls ==
    {BaseUrl(<<>>),
     BaseUrl(B(<<"a","=","1">>)),
     BaseUrl(B(<<"a","=","1","&","a","=","2">>)),
     BaseUrl(B(<<"b","=","%","2","0","x","&","a","=","1">>)),
     BaseUrl(B(<<"a","=","1",";","c">>)),
     BaseUrl(B(<<"o","a","u","t","h","_","t","o","k","e","n","=","u","&","a","=","+">>)),
     BaseUrl(B(<<"r","e","a","l","m","=","x","&","c","=","3","&",
                 "o","a","u","t","h","_","s","i","g","n","a","t","u","r","e","=","y">>)),
     [BaseUrl(B(<<"a","=","1">>)) EXCEPT !.fragment = B(<<"f","=","1">>)]}

BaseParamA == B(<<"a">>)
BaseParamB == B(<<"b">>)
BaseParamToken == B(<<"o","a","u","t","h","_","t","o","k","e","n">>)
BaseParamSignature == B(<<"o","a","u","t","h","_","s","i","g","n","a","t","u","r","e">>)
BaseParamRealm == B(<<"r","e","a","l","m">>)

BaseParams ==
    {EmptyDict,
     (BaseParamA :> StrValue(B(<<"9">>))),
     (BaseParamA :> ListValue(<<StrValue(B(<<"8">>)), StrValue(B(<<"1">>))>>)),
     (BaseParamB :> StrValue(B(<<"2"," ","~">>))),
     (BaseParamToken :> StrValue(B(<<"t">>))),
     (BaseParamA :> StrValue(B(<<"9">>))) @@ (BaseParamSignature :> StrValue(B(<<"s">>))),
     (BaseParamB :> IntValue(15))}

NoBase == [fn |-> "none"]

SignatureBaseString ==
    /\ bs = NoBase
    /\ \E method \in BaseMethods, url \in BaseUrls, query_params \in BaseParams :
        LET r == oauth_get_signature_base_string(method, url, query_params)
        IN  /\ bs' = [fn |-> "oauth_get_signature_base_string", method |-> method,
                      url |-> url, query_params |-> query_params,
                      err |-> r.err, value |-> r.value]
            /\ UNCHANGED <<cfg, hdrs, calls, last, pending, cb, parsed, redirect, transport>>

\* mappings passed to oauth_get_normalized_query_string
NormalizeParams ==
    {EmptyDict,
     (BaseParamA :> IntValue(5)),
     (BaseParamA :> IntValue(1)) @@ (BaseParamB :> ListValue(<<IntValue(8), IntValue(2), IntValue(4)>>)),
     (BaseParamA :> IntValue(1)) @@ (BaseParamB :> ListValue(<<IntValue(2), IntValue(4), IntValue(8)>>)),
     (BaseParamA :> IntValue(1)) @@ (BaseParamB :> ListValue(<<IntValue(4), IntValue(8), IntValue(2)>>)),
     (BaseParamA :> StrValue(B(<<"x">>))) @@ (B(<<"{">>) :> StrValue(B(<<"y">>))),
     (BaseParamB :> ListValue(<<StrValue(B(<<"a">>)), StrValue(B(<<"{">>)), StrValue(B(<<"a"," ","b">>))>>)),
     (B(<<"c","@">>) :> ListValue(<<StrValue(<<>>)>>)) @@ (B(<<"c","2">>) :> ListValue(<<StrValue(<<>>)>>)),
     (BaseParamB :> ListValue(<<StrValue(B(<<"=","%","3","D">>)), StrValue(B(<<"a","&","b">>))>>)),
     (BaseParamA :> StrValue(B(<<"9">>))) @@ (BaseParamRealm :> StrValue(B(<<"r">>))),
     (BaseParamA :> StrValue(B(<<"9">>))) @@ (BaseParamRealm :> StrValue(B(<<"h","t","t","p">>)))
         @@ (BaseParamSignature :> StrValue(B(<<"s">>))),
     (BaseParamA :> StrValue(B(<<"9">>))),
     (BaseParamSignature :> ListValue(<<StrValue(B(<<"s">>)), StrValue(B(<<"t">>))>>))}

NormalizedQueryString ==
    /\ bs = NoBase
    /\ \E query_params \in NormalizeParams :
        /\ bs' = [fn |-> "oauth_get_normalized_query_string", query_params |-> query_params,
                  err |-> NoError, value |-> oauth_get_normalized_query_string(query_params)]
        /\ UNCHANGED <<cfg, hdrs, calls, last, pending, cb, parsed, redirect, transport>>

\* s.find: the first position of s that holds one of the bytes, 0 when none does
Find(s, bytes) ==
    IF \E i \in 1..Len(s) : s[i] \in bytes
    THEN CHOOSE i \in 1..Len(s) : s[i] \in bytes /\ \A j \in 1..(i - 1) : s[j] \notin bytes
    ELSE 0

\* s.rfind: the last position of s that holds the byte, 0 when none does
RFind(s, b) ==
    IF \E i \in 1..Len(s) : s[i] = b
    THEN CHOOSE i \in 1..Len(s) : s[i] = b /\ \A j \in (i + 1)..Len(s) : s[j] # b
    ELSE 0

\* urlparse.urlparse(url) for scheme://netloc/path;params?query#fragment: the
\* scheme ends at the first ':', the netloc at the first '/', '?' or '#', the
\* fragment starts at the first '#', the query at the first '?', and the
\* parameters at the first ';' of the last segment of the path
urlparse(url) ==
    LET colon == Find(url, {58})
        after == SubSeq(url, colon + 3, Len(url))
        slash == Find(after, {47, 63, 35})
        netloc == IF slash = 0 THEN after ELSE SubSeq(after, 1, slash - 1)
        rest == IF slash = 0 THEN <<>> ELSE SubSeq(after, slash, Len(after))
        hash == Find(rest, {35})
        nofrag == IF hash = 0 THEN rest ELSE SubSeq(rest, 1, hash - 1)
        mark == Find(nofrag, {63})
        fullpath == IF mark = 0 THEN nofrag ELSE SubSeq(nofrag, 1, mark - 1)
        segment == RFind(fullpath, 47)
        semi == Find(SubSeq(fullpath, segment + 1, Len(fullpath)), {59})
    IN  [scheme |-> StrLower(SubSeq(url, 1, colon - 1)),
         netloc |-> netloc,
         path |-> IF semi = 0 THEN fullpath ELSE SubSeq(fullpath, 1, segment + semi - 1),
         params |-> IF semi = 0 THEN <<>> ELSE SubSeq(fullpath, segment + semi + 1, Len(fullpath)),
         query |-> IF mark = 0 THEN <<>> ELSE SubSeq(nofrag, mark + 1, Len(nofrag)),
         fragment |-> IF hash = 0 THEN <<>> ELSE SubSeq(rest, hash + 1, Len(rest))]

\* URLs passed to oauth_get_normalized_url_and_query_params
UrlStrings ==
    {B(<<"H","T","T","P",":","/","/","e","X",".","c","o","m","/","r","?",
         "a","3","=","a","&","c","2","&","a","3","=","2","+","q","&","c","%","4","0","=">>),
     B(<<"h","t","t","p",":","/","/","e","x",".","c","o","m","/","r">>),
     B(<<"h","t","t","p",":","/","/","e","x",".","c","o","m","/","r","?","a","=","1","#","f">>),
     B(<<"h","t","t","p",":","/","/","E","X",".","c","o","m","/","A","/","b","#","f","?","x">>),
     B(<<"h","t","t","p",":","/","/","e","x",".","c","o","m","/","r",";","v","=","1","?","a","=","1">>),
     B(<<"h","t","t","p","s",":","/","/","e","x",".","c","o","m",":","4","4","3","/","A","/","b","?","x","=","%","2","0">>),
     B(<<"h","t","t","p",":","/","/","e","x",".","c","o","m">>)}

\* oauth_get_normalized_url_and_query_params on a URL, and on the URL it returned
NormalizedUrlAndQueryParams ==
    /\ bs = NoBase
    /\ \E url \in UrlStrings :
        LET r == oauth_get_normalized_url_and_query_params(urlparse(url))
            again == oauth_get_normalized_url_and_query_params(urlparse(r.normalized_url))
        IN  /\ bs' = [fn |-> "oauth_get_normalized_url_and_query_params", url |-> url,
                      err |-> NoError, value |-> r, again |-> again]
            /\ UNCHANGED <<cfg, hdrs, calls, last, pending, cb, parsed, redirect, transport>>

LowerHexDigits == B(<<"0", "1", "2", "3", "4", "5", "6", "7", "8", "9", "a", "b", "c", "d", "e", "f">>)

\* binascii.b2a_hex: two lower-case hex digits for each byte
b2a_hex(data) ==
    Concat([i \in 1..Len(data) |->
              <<LowerHexDigits[(data[i] \div 16) + 1], LowerHexDigits[(data[i] % 16) + 1]>>])

\* oauth_generate_nonce, line 60; uuid_bytes is uuid.uuid4().bytes
oauth_generate_nonce(uuid_bytes) == b2a_hex(uuid_bytes)

\* s[:n] for n >= 0
Prefix(s, n) == SubSeq(s, 1, IF n < Len(s) THEN n ELSE Len(s))

\* oauth_generate_verification_code, line 83
oauth_generate_verification_code(length, uuid_bytes) ==
    Prefix(oauth_generate_nonce(uuid_bytes), length)

\* the default of the length parameter
DefaultCodeLength == 8

\* the longest code asked for
MaxCodeLength == 34

\* the 16 bytes uuid.uuid4() can give: three of them
UuidBytes ==
    {<<29, 9, 168, 147, 249, 201, 65, 237, 174, 8, 24, 245, 232, 87, 189, 213>>,
     <<0, 0, 0, 0, 0, 0, 64, 0, 128, 0, 0, 0, 0, 0, 0, 0>>,
     <<255, 255, 255, 255, 255, 255, 79, 255, 191, 255, 255, 255, 255, 255, 255, 255>>}

GenerateVerificationCode ==
    /\ bs = NoBase
    /\ \E length \in {DefaultCodeLength} \cup (0..MaxCodeLength), uuid_bytes \in UuidBytes :
        /\ bs' = [fn |-> "oauth_generate_verification_code", length |-> length,
                  nonce |-> oauth_generate_nonce(uuid_bytes), err |-> NoError,
                  value |-> oauth_generate_verification_code(length, uuid_bytes)]
        /\ UNCHANGED <<cfg, hdrs, calls, last, pending, cb, parsed, redirect, transport>>

\* a byte string and a Unicode string
Bytes(s) == [unicode |-> FALSE, chars |-> s]
Unicode(points) == [unicode |-> TRUE, chars |-> points]

\* values passed to oauth_escape: every single byte, and some longer strings
EscapeValues ==
    {Bytes(<<b>>) : b \in 0..255}
        \cup {Bytes(<<>>),
              Bytes(B(<<"a"," ","b","+","c">>)),
              Bytes(B(<<"/","&","=","%","2","0">>)),
              Bytes(B(<<"A","z","0","9","-",".","_","~">>)),
              Bytes(<<29, 9, 168, 147, 249, 201, 65, 237>>),
              Unicode(<<233>>),
              Unicode(<<99, 97, 102, 233, 32, 1046>>)}

Escape ==
    /\ bs = NoBase
    /\ \E val \in EscapeValues :
        /\ bs' = [fn |-> "oauth_escape", val |-> val, err |-> NoError,
                  value |-> oauth_escape(Encoded(val))]
        /\ UNCHANGED <<cfg, hdrs, calls, last, pending, cb, parsed, redirect, transport>>

\* oauth_parse_qs on a query string whose one value was written by oauth_escape
ParseEscaped ==
    /\ bs = NoBase
    /\ \E val \in EscapeValues :
        LET qs == BaseParamA \o <<61>> \o oauth_escape(Encoded(val))
        IN  /\ bs' = [fn |-> "oauth_parse_qs", val |-> val, qs |-> qs, err |-> NoError,
                      value |-> oauth_parse_qs(qs)]
            /\ UNCHANGED <<cfg, hdrs, calls, last, pending, cb, parsed, redirect, transport>>

\* as TokenSecretElem, but the token secret is joined as it is
TokenSecretElem_AsIs(token_secret) ==
    IF token_secret # None /\ token_secret[1] # <<>> THEN token_secret[1] ELSE <<>>

\* _oauth_get_plaintext_signature, line 430:
\* oauth_escape(token_secret) if token_secret else ""
TokenSecretElem(token_secret) ==
    IF token_secret # None /\ token_secret[1] # <<>> THEN oauth_escape(token_secret[1]) ELSE <<>>

\* _oauth_get_plaintext_signature
PlaintextSignature(consumer_secret, token_secret) ==
    Join(<<38>>, <<oauth_escape(consumer_secret), TokenSecretElem(token_secret)>>)

\* oauth_get_plaintext_signature
oauth_get_plaintext_signature(consumer_secret, method, url, query_params, token_secret) ==
    PlaintextSignature(consumer_secret, token_secret)

ConsumerSecrets ==
    {B(<<"a","b","c","d">>), B(<<"a","&","b">>), <<>>, B(<<"k"," ","=">>)}
TokenSecrets ==
    {None, Some(<<>>), Some(B(<<"4","7","f","b","a">>)), Some(B(<<"c"," ","d","&">>))}
PlaintextUrls == {BaseUrl(<<>>), BaseUrl(B(<<"a","=","1">>))}
PlaintextParams == {EmptyDict, (BaseParamA :> StrValue(B(<<"9">>)))}

PlaintextSignatureCall ==
    /\ bs = NoBase
    /\ \E consumer_secret \in ConsumerSecrets, token_secret \in TokenSecrets,
       method \in BaseMethods, url \in PlaintextUrls, query_params \in PlaintextParams :
        /\ bs' = [fn |-> "oauth_get_plaintext_signature", consumer_secret |-> consumer_secret,
                  token_secret |-> token_secret, method |-> method, url |-> url,
                  query_params |-> query_params, err |-> NoError,
                  value |-> oauth_get_plaintext_signature(consumer_secret, method, url,
                                                          query_params, token_secret)]
        /\ UNCHANGED <<cfg, hdrs, calls, last, pending, cb, parsed, redirect, transport>>

(***************************************************************************)
(* Client: the URLs the resource owner is sent to.                         *)
(***************************************************************************)
\* Client.__init__, lines 624-630: the endpoints, sanitized
AuthorizationUri == oauth_url_sanitize(cfg.authorization_uri)
AuthenticationUri ==
    IF cfg.authentication_uri = None THEN None
    ELSE Some(oauth_url_sanitize(cfg.authentication_uri[1]))

\* as RedirectUrl, but oauth_token is put before the caller's parameters
RedirectUrl_TokenFirst(url, temporary_credentials, query_params) ==
    url_append_query(
        url_append_query(url, (OAUTH_PARAM_TOKEN :> <<temporary_credentials.identifier>>)),
        query_remove_oauth(query_unflatten(query_params)))

\* get_authorization_url, lines 846-854 (get_authentication_url, lines 874-882):
\* the caller's parameters without the oauth_ ones, then oauth_token
RedirectUrl(url, temporary_credentials, query_params) ==
    url_append_query(
        url_append_query(url, query_remove_oauth(query_unflatten(query_params))),
        (OAUTH_PARAM_TOKEN :> <<temporary_credentials.identifier>>))

\* Client.get_authorization_url
get_authorization_url(temporary_credentials, query_params) ==
    [err |-> NoError,
     url |-> Some(RedirectUrl(AuthorizationUri, temporary_credentials, query_params))]

\* Client.get_authentication_url
get_authentication_url(temporary_credentials, query_params) ==
    IF AuthenticationUri = None
    THEN [err |-> Error("NotImplementedError", "get_authentication_url"), url |-> None]
    ELSE [err |-> NoError,
          url |-> Some(RedirectUrl(AuthenticationUri[1], temporary_credentials, query_params))]

\* what the client is configured with and what the caller can pass
AuthorizationUris ==
    {Url("https://example.com/authorize", <<>>),
     Url("https://example.com/authorize",
         <<(PARAM_A :> <<"0">>) @@ (OAUTH_PARAM_TOKEN :> <<"stale">>)>>)}
AuthenticationUris ==
    {None, Some(Url("https://example.com/authenticate", <<>>)),
     Some(Url("https://example.com/authenticate", <<(OAUTH_PARAM_TOKEN :> <<"stale">>)>>))}
RedirectCredentials == {TemporaryCredentials, Credentials("", "tmp-secret")}
RedirectParams ==
    {EmptyDict,
     (PARAM_A :> "1"),
     (OAUTH_PARAM_TOKEN :> "evil"),
     (PARAM_A :> "1") @@ (OAUTH_PARAM_TOKEN :> "evil") @@ (OAUTH_PARAM_CALLBACK :> "oob"),
     (PARAM_A :> "1") @@ (PARAM_B :> "2")}

NoRedirect == [fn |-> "none"]

GetAuthorizationUrl ==
    \E temporary_credentials \in RedirectCredentials, query_params \in RedirectParams :
        LET r == get_authorization_url(temporary_credentials, query_params)
        IN  /\ redirect' = [fn |-> "get_authorization_url",
                            temporary_credentials |-> temporary_credentials,
                            query_params |-> query_params, err |-> r.err, url |-> r.url]
            /\ UNCHANGED <<cfg, hdrs, calls, last, pending, cb, parsed, bs, transport>>

GetAuthenticationUrl ==
    \E temporary_credentials \in RedirectCredentials, query_params \in RedirectParams :
        LET r == get_authentication_url(temporary_credentials, query_params)
        IN  /\ redirect' = [fn |-> "get_authentication_url",
                            temporary_credentials |-> temporary_credentials,
                            query_params |-> query_params, err |-> r.err, url |-> r.url]
            /\ UNCHANGED <<cfg, hdrs, calls, last, pending, cb, parsed, bs, transport>>

(***************************************************************************)
(* Specifications.                                                         *)
(***************************************************************************)
Init ==
    /\ cfg \in [strict : BOOLEAN, use_authorization_header : BOOLEAN,
                 authorization_uri : {Url("https://example.com/authorize", <<>>)},
                 authentication_uri : {None}]
    /\ hdrs \in HeaderSet
    /\ calls = 0
    /\ last = NoCall
    /\ pending = <<>>
    /\ cb = <<>>
    /\ parsed = NotParsed
    /\ bs = NoBase
    /\ redirect = NoRedirect
    /\ transport = 0

Next ==
    \/ FetchTemporaryCredentials
    \/ FetchTokenCredentials
    \/ Fetch
    \/ Repeat
    \/ Deliver

Spec == Init /\ [][Next]_vars

NextParse ==
    \/ CheckVerificationCode
    \/ DoParseTemporaryCredentialsResponse
    \/ DoParseTokenCredentialsResponse

\* the parsers are class methods: they read nothing of the client or the caller
InitParse ==
    /\ Init
    /\ cfg.strict /\ cfg.use_authorization_header
    /\ hdrs = EmptyDict

SpecParse == InitParse /\ [][NextParse]_vars

\* the functions of pyoauth/utils.py alone, on arguments drawn from the sets above;
\* they keep nothing between calls, so a behaviour is one call of one of them
NextBase ==
    \/ SignatureBaseString
    \/ NormalizedQueryString
    \/ Escape
    \/ ParseEscaped
    \/ PlaintextSignatureCall
    \/ NormalizedUrlAndQueryParams
    \/ GenerateVerificationCode

SpecBase == InitParse /\ [][NextBase]_vars

\* the URL builders of a client, over the endpoints it can be configured with
NextUrl ==
    \/ GetAuthorizationUrl
    \/ GetAuthenticationUrl

InitUrl ==
    /\ cfg \in [strict : {TRUE}, use_authorization_header : {TRUE},
                 authorization_uri : AuthorizationUris,
                 authentication_uri : AuthenticationUris]
    /\ hdrs = EmptyDict
    /\ calls = 0
    /\ last = NoCall
    /\ pending = <<>>
    /\ cb = <<>>
    /\ parsed = NotParsed
    /\ bs = NoBase
    /\ redirect = NoRedirect
    /\ transport = 0

SpecUrl == InitUrl /\ [][NextUrl]_vars

(***************************************************************************)
(* Properties of request construction and of the exchanges.                *)
(***************************************************************************)
Called == last.op # "none"

\* the call got as far as _request: the checks of the operation itself passed
ReachedRequest ==
    /\ Called
    /\ last.op = "fetch_temporary_credentials" => is_valid_callback_url(last.args.oauth_callback)
    /\ last.op = "fetch_token_credentials" => OAUTH_PARAM_CALLBACK \notin DOMAIN last.args.kwargs

SegmentsHaveOAuth(segs) ==
    \E i \in 1..Len(segs) : \E k \in DOMAIN segs[i] : IsOAuthName(k)

HeaderHasOAuth(req) ==
    /\ HEADER_AUTHORIZATION_CAPS \in DOMAIN req.headers
    /\ req.headers[HEADER_AUTHORIZATION_CAPS].scheme = "OAuth"
    /\ \E k \in DOMAIN req.headers[HEADER_AUTHORIZATION_CAPS].params : IsOAuthName(k)

QueryHasOAuth(req) == SegmentsHaveOAuth(req.url.query)

\* the entity body is declared form-encoded and holds an oauth_ parameter
FormBodyHasOAuth(req) ==
    /\ \E h \in {HEADER_CONTENT_TYPE, HEADER_CONTENT_TYPE_CAPS} :
           h \in DOMAIN req.headers /\ req.headers[h] = CONTENT_TYPE_FORM_URLENCODED
    /\ SegmentsHaveOAuth(req.body)

\* C1: every assembled request carries the OAuth parameters in exactly one place:
\* in the Authorization header when use_auth_header is true, otherwise in the URL
\* query or the form-encoded body; never in the header and in the body or query.
C1_OAuthParamsInOnePlace ==
    (Called /\ last.request # None) =>
        LET req == last.request[1] IN
        IF cfg.use_authorization_header
        THEN HeaderHasOAuth(req) /\ ~QueryHasOAuth(req) /\ ~FormBodyHasOAuth(req)
        ELSE ~HeaderHasOAuth(req) /\ (QueryHasOAuth(req) \/ FormBodyHasOAuth(req))

\* C3 as claimed: oauth_signature among the extra parameters fails with
\* IllegalParameter (IllegalArgumentError) for every signature method, and nothing
\* is signed, assembled or sent.
C3_SignatureRejectedForEveryMethod ==
    (ReachedRequest /\ OAUTH_PARAM_SIGNATURE \in DOMAIN last.args.kwargs) =>
        /\ last.err.type = "IllegalArgumentError"
        /\ ~last.sent /\ last.request = None /\ last.signature = None

\* C3 as amended: with a supported signature method it fails with IllegalParameter
\* (IllegalArgumentError); with an unsupported one the signature method is refused
\* first (InvalidSignatureMethodError); either way nothing is signed, assembled or
\* sent.
C3_SignatureRejected ==
    (ReachedRequest /\ OAUTH_PARAM_SIGNATURE \in DOMAIN last.args.kwargs) =>
        /\ last.err.type =
              IF last.args.oauth_signature_method \in
                    {"HMAC-SHA1", "RSA-SHA1", "PLAINTEXT"}
              THEN "IllegalArgumentError"
              ELSE "InvalidSignatureMethodError"
        /\ ~last.sent /\ last.request = None /\ last.signature = None

C3_Witness ==
    /\ ReachedRequest
    /\ OAUTH_PARAM_SIGNATURE \in DOMAIN last.args.kwargs
    /\ last.args.oauth_signature_method = "PLAINTEXT"
    /\ last.err = Error("IllegalArgumentError", "_generate_oauth_params")

C5_AsyncExchangeCompletes ==
    (Called /\ last.op # "fetch" /\ last.sent) =>
        IF last.args.async_callback
        THEN last.err = NoError /\ last.parses = 0
        ELSE last.parses = 1 /\ (last.err = NoError => last.credentials # None)

\* C6: the operations keep no state between calls and leave the caller's headers
\* mapping as it was, so a call repeated with the same arguments and the same
\* headers mapping builds and sends its request, or fails to, as the first call did.
C6_Repeatable ==
    [][(calls >= 1 /\ calls' = calls + 1) =>
           /\ last'.sent = last.sent
           /\ ~last.sent => last'.err = last.err]_vars

\* the call got as far as _build_request: the protocol parameters were generated
\* and the request was signed
ReachedAssembly == ReachedRequest /\ last.signature # None

HasAuthorization(headers) ==
    HEADER_AUTHORIZATION_CAPS \in DOMAIN headers \/ HEADER_AUTHORIZATION \in DOMAIN headers

HasContentLength(headers) ==
    HEADER_CONTENT_LENGTH \in DOMAIN headers \/ HEADER_CONTENT_LENGTH_CAPS \in DOMAIN headers

NothingBuilt == ~last.sent /\ last.request = None

\* C11: fetch_temporary_credentials refuses a callback that is neither a valid
\* absolute URL nor the out-of-band marker with InvalidCallbackUrl (ValueError),
\* before a request is built, signed or handed to the transport.
C11_InvalidCallbackRejectedFirst ==
    (Called /\ last.op = "fetch_temporary_credentials"
            /\ last.args.oauth_callback # OAUTH_VALUE_CALLBACK_OOB
            /\ last.args.oauth_callback \notin AbsoluteUrls) =>
        /\ last.err = Error("ValueError", "fetch_temporary_credentials")
        /\ NothingBuilt /\ last.signature = None /\ last.response = None
        /\ pending = <<>>

C11_Witness ==
    /\ Called /\ last.op = "fetch_temporary_credentials"
    /\ last.args.oauth_callback = "not a url"
    /\ last.args.oauth_signature_method = "MD5"
    /\ last.err.type = "ValueError" /\ ~last.sent

\* C12: fetch_token_credentials fails with IllegalParameter (IllegalArgumentError)
\* whenever oauth_callback is among the extra parameters, before a request is
\* built or handed to the transport.
C12_CallbackReservedForFirstLeg ==
    (Called /\ last.op = "fetch_token_credentials"
            /\ OAUTH_PARAM_CALLBACK \in DOMAIN last.args.kwargs) =>
        /\ last.err = Error("IllegalArgumentError", "fetch_token_credentials")
        /\ NothingBuilt /\ last.signature = None /\ last.response = None
        /\ pending = <<>>

C12_Witness ==
    /\ Called /\ last.op = "fetch_token_credentials"
    /\ OAUTH_PARAM_CALLBACK \in DOMAIN last.args.kwargs
    /\ last.args.oauth_signature_method = "MD5"
    /\ last.err.type = "IllegalArgumentError" /\ ~last.sent

\* C14: when the caller's headers already hold an Authorization or authorization
\* entry, request assembly fails with DuplicateAuthorizationHeader
\* (InvalidAuthorizationHeaderError) for either value of use_auth_header, produces
\* no request and leaves the caller's headers as they were.
C14_DuplicateAuthorizationRejected ==
    (ReachedAssembly /\ HasAuthorization(last.headers)) =>
        /\ last.err = Error("InvalidAuthorizationHeaderError", "_build_request")
        /\ NothingBuilt
        /\ hdrs = last.headers

C14_Witness ==
    /\ ReachedAssembly
    /\ HEADER_AUTHORIZATION \in DOMAIN last.headers
    /\ ~cfg.use_authorization_header
    /\ last.err.type = "InvalidAuthorizationHeaderError"
    /\ hdrs = last.headers

RECURSIVE QueryValues(_, _)
QueryValues(segs, k) ==
    IF segs = <<>> THEN <<>>
    ELSE (IF k \in DOMAIN Head(segs) THEN Head(segs)[k] ELSE <<>>) \o QueryValues(Tail(segs), k)

Occurs(values, v) == \E i \in 1..Len(values) : values[i] = v

\* every extra (not oauth_) parameter of the call is in the query string segs
ExtraParamsIn(segs) ==
    \A k \in DOMAIN last.args.params :
        ~IsOAuthName(k) =>
            \A i \in 1..Len(last.args.params[k]) :
                Occurs(QueryValues(segs, k), last.args.params[k][i])

\* the names every set of protocol parameters has
ProtocolNames ==
    {OAUTH_PARAM_CONSUMER_KEY, OAUTH_PARAM_SIGNATURE_METHOD, OAUTH_PARAM_TIMESTAMP,
     OAUTH_PARAM_NONCE, OAUTH_PARAM_SIGNATURE}

\* segs ends with a segment that holds the protocol parameters and nothing else
ProtocolParamsAppended(segs) ==
    /\ segs # <<>>
    /\ ProtocolNames \subseteq DOMAIN segs[Len(segs)]
    /\ \A k \in DOMAIN segs[Len(segs)] : IsOAuthName(k)

\* the URL the operation addresses
TargetUrl ==
    CASE last.op = "fetch_temporary_credentials" -> TemporaryCredentialsUri
      [] last.op = "fetch_token_credentials" -> TokenCredentialsUri
      [] last.op = "fetch" -> last.args.url

\* C17: when the caller gives a body or the method is GET, the extra parameters,
\* and the OAuth parameters unless they are in the Authorization header, are
\* appended to the URL query string, and the caller's body is sent as it is.
C17_ParametersGoToQuery ==
    (Called /\ last.request # None
            /\ (last.args.body # <<>> \/ Upper(last.args.method) = HTTP_GET)) =>
        LET req == last.request[1] IN
        /\ req.body = last.args.body
        /\ req.url.base = TargetUrl.base
        /\ ExtraParamsIn(req.url.query)
        /\ IF cfg.use_authorization_header
           THEN ~QueryHasOAuth(req)
           ELSE ProtocolParamsAppended(req.url.query)

C17_Witness ==
    /\ Called /\ last.request # None
    /\ last.args.body = <<>> /\ Upper(last.args.method) = HTTP_GET
    /\ DOMAIN last.args.params # {}
    /\ ~cfg.use_authorization_header
    /\ ProtocolParamsAppended(last.request[1].url.query)

ContentLengths(headers) ==
    {headers[h] : h \in {HEADER_CONTENT_LENGTH, HEADER_CONTENT_LENGTH_CAPS} \cap DOMAIN headers}

ContentTypes(headers) ==
    {headers[h] : h \in {HEADER_CONTENT_TYPE, HEADER_CONTENT_TYPE_CAPS} \cap DOMAIN headers}

\* C18: for a request that is not GET and has no caller's body, the parameters
\* that are not in the Authorization header are form-encoded into the body, the
\* URL is left as it is, Content-Type is the form type and Content-Length is the
\* byte length of the assembled body; with no such parameters the body is empty
\* and Content-Length is 0.
C18_ParametersGoToBody ==
    (Called /\ last.request # None
            /\ last.args.body = <<>> /\ Upper(last.args.method) # HTTP_GET) =>
        LET req == last.request[1]
            none == cfg.use_authorization_header
                    /\ \A k \in DOMAIN last.args.params : IsOAuthName(k)
        IN  /\ req.url = oauth_url_sanitize(TargetUrl)
            /\ ContentLengths(req.headers) = {ToString(BodyLength(req.body))}
            /\ IF none
               THEN req.body = <<>> /\ ContentLengths(req.headers) = {"0"}
               ELSE /\ ContentTypes(req.headers) = {CONTENT_TYPE_FORM_URLENCODED}
                    /\ ExtraParamsIn(req.body)
                    /\ IF cfg.use_authorization_header
                       THEN ~SegmentsHaveOAuth(req.body)
                       ELSE ProtocolParamsAppended(req.body)

\* the protocol parameters a request carries: those of its Authorization header,
\* or else the segment appended to its URL query string or entity body
ProtocolParams(req) ==
    IF cfg.use_authorization_header
    THEN query_unflatten(req.headers[HEADER_AUTHORIZATION_CAPS].params)
    ELSE IF last.args.body # <<>> \/ req.method = HTTP_GET
    THEN req.url.query[Len(req.url.query)]
    ELSE req.body[Len(req.body)]

\* the token secret the signature was made with (RSA-SHA1 uses none)
SignedWithTokenSecret(secret) ==
    last.signature[1].alg # SIGNATURE_METHOD_RSA_SHA1 => last.signature[1].key[2] = secret

BaseBuilt == bs.fn = "oauth_get_signature_base_string" /\ bs.err = NoError

\* the (name, value) pairs read back from the third part of a base string
BasePairs(value) ==
    LET query_string == Unquote(Split(value, 38)[3])
        entries == IF query_string = <<>> THEN <<>> ELSE Split(query_string, 38)
    IN  [i \in 1..Len(entries) |->
            <<Unquote(Split1(entries[i], 61)[1]), Unquote(Split1(entries[i], 61)[2])>>]

Count(seq, x) == Cardinality({i \in 1..Len(seq) : seq[i] = x})

\* the strings a parameter value stands for, in order
ValuesOf(v) ==
    IF v.kind = "list" THEN [i \in 1..Len(v.items) |-> AsString(v.items[i])]
    ELSE <<AsString(v)>>

\* C2: when the caller supplies a parameter whose name is already in the URL's
\* query string, the normalized parameter string inside the base string holds the
\* URL's values and the caller's values for that name, as repeated entries; the
\* caller's value never replaces the URL's.
C2_SameNamedBothSurvive ==
    BaseBuilt =>
        LET url_query_params == oauth_parse_qs(bs.url.query)
            pairs == BasePairs(bs.value)
        IN  \A k \in (DOMAIN url_query_params) \cap (DOMAIN bs.query_params) :
                /\ \A i \in 1..Len(ValuesOf(url_query_params[k])) :
                       Count(pairs, <<k, ValuesOf(url_query_params[k])[i]>>) >= 1
                /\ \A i \in 1..Len(ValuesOf(bs.query_params[k])) :
                       Count(pairs, <<k, ValuesOf(bs.query_params[k])[i]>>) >= 1

(***************************************************************************)
(* Properties of response parsing.                                         *)
(***************************************************************************)
Parsed ==
    parsed.fn \in {"parse_temporary_credentials_response", "parse_token_credentials_response"}
ParsedTemporary == parsed.fn = "parse_temporary_credentials_response"

HasName(body, name) == \E i \in 1..Len(body) : body[i][1] = name
HasPair(body, name, value) == \E i \in 1..Len(body) : body[i] = <<name, value>>
FirstValue(body, name) ==
    body[CHOOSE i \in 1..Len(body) :
            body[i][1] = name /\ \A j \in 1..(i - 1) : body[j][1] # name][2]

Complete(r) == r.status # 0 /\ r.reason # "" /\ r.body # <<>> /\ DOMAIN r.headers # {}
HasCredentials(r) ==
    HasName(r.body, OAUTH_PARAM_TOKEN) /\ HasName(r.body, OAUTH_PARAM_TOKEN_SECRET)

\* the response passes every check of _parse_credentials_response
PassesCredentialsChecks(r, strict) ==
    /\ Complete(r) /\ ~r.error /\ HasCredentials(r)
    /\ r.content_type = CONTENT_TYPE_FORM_URLENCODED \/ ~strict

CredentialsOf(r) ==
    Some(Credentials(FirstValue(r.body, OAUTH_PARAM_TOKEN),
                     FirstValue(r.body, OAUTH_PARAM_TOKEN_SECRET)))

CallbackNotConfirmed == Error("ValueError", "parse_temporary_credentials_response")

C8_ContentTypeStrictOnly ==
    (Parsed /\ Complete(parsed.response) /\ ~parsed.response.error
            /\ parsed.response.content_type # CONTENT_TYPE_FORM_URLENCODED) =>
        IF parsed.strict
        THEN /\ parsed.result.err =
                    Error("InvalidContentTypeError", "_parse_credentials_response")
             /\ parsed.result.credentials = None
        ELSE /\ parsed.result.err.type # "InvalidContentTypeError"
             /\ HasCredentials(parsed.response) =>
                    /\ parsed.result.err = NoError
                    /\ parsed.result.credentials = CredentialsOf(parsed.response)

C8_Witness ==
    /\ Parsed /\ Complete(parsed.response) /\ ~parsed.response.error
    /\ parsed.response.content_type = "text/html"
    /\ ~parsed.strict
    /\ parsed.result.err = NoError
    /\ parsed.result.credentials = Some(Credentials("tok", "sec"))

\* C9: a response whose status, reason, body or headers is missing or empty fails
\* with InvalidResponse (InvalidHttpResponseError) in strict and in lenient mode,
\* and no credentials are returned.
C9_IncompleteResponseInvalid ==
    (Parsed /\ ~Complete(parsed.response)) =>
        /\ parsed.result.err =
              Error("InvalidHttpResponseError", "_parse_credentials_response")
        /\ parsed.result.credentials = None

C9_Witness ==
    /\ Parsed /\ ~parsed.strict
    /\ parsed.response.status = 200 /\ parsed.response.reason = "OK"
    /\ HasCredentials(parsed.response) /\ ~parsed.response.error
    /\ DOMAIN parsed.response.headers = {}
    /\ parsed.result.err.type = "InvalidHttpResponseError"

\* C10: a response that has status, reason, body and headers but signals an error
\* fails with TransportError (HttpError) whatever strict and the content type are,
\* and no credentials are returned from its body.
C10_ErrorResponseIsTransportError ==
    (Parsed /\ Complete(parsed.response) /\ parsed.response.error) =>
        /\ parsed.result.err = Error("HttpError", "_parse_credentials_response")
        /\ parsed.result.credentials = None

C10_Witness ==
    /\ Parsed /\ Complete(parsed.response) /\ parsed.response.error
    /\ parsed.strict
    /\ parsed.response.content_type = "text/html"
    /\ HasCredentials(parsed.response)
    /\ parsed.result.err.type = "HttpError"

\* the values the body gives to a name, in the order of the body
BodyValues(body, name) ==
    LET named == SelectSeq(body, LAMBDA p : p[1] = name)
    IN  [i \in 1..Len(named) |-> named[i][2]]

\* C35: when parsing succeeds the credentials are the first values of oauth_token
\* and oauth_token_secret in the body, and the mapping returned holds every
\* parameter of the body, the provider's own included; a body without oauth_token
\* or without oauth_token_secret never gives credentials, strict or lenient.
C35_CredentialsAreFirstValues ==
    Parsed =>
        LET body == parsed.response.body
            res == parsed.result
        IN  /\ res.err = NoError =>
                /\ HasCredentials(parsed.response)
                /\ res.credentials = CredentialsOf(parsed.response)
                /\ DOMAIN res.params = {body[i][1] : i \in 1..Len(body)}
                /\ \A k \in DOMAIN res.params : res.params[k] = BodyValues(body, k)
            /\ ~HasCredentials(parsed.response) =>
                /\ res.err # NoError
                /\ res.credentials = None

C35_Witness ==
    /\ Parsed /\ parsed.result.err = NoError
    /\ BodyValues(parsed.response.body, OAUTH_PARAM_TOKEN) = <<"tok", "tok2">>
    /\ parsed.result.credentials = Some(Credentials("tok", "sec"))
    /\ parsed.result.params[PARAM_A] = <<"1">>

C35_MissingSecretWitness ==
    /\ Parsed /\ ~parsed.strict
    /\ Complete(parsed.response) /\ ~parsed.response.error
    /\ HasName(parsed.response.body, OAUTH_PARAM_TOKEN)
    /\ ~HasName(parsed.response.body, OAUTH_PARAM_TOKEN_SECRET)
    /\ parsed.result.err.type = "KeyError"
    /\ parsed.result.credentials = None

\* the first value of oauth_callback_confirmed in the body is "true" in some case
BodyConfirmsCallback(body) ==
    /\ HasName(body, OAUTH_PARAM_CALLBACK_CONFIRMED)
    /\ FirstValue(body, OAUTH_PARAM_CALLBACK_CONFIRMED) \in {"true", "TRUE", "True"}

\* the error type and the message of the first check of the list that fails, for
\* a response whose body holds credentials
FirstFailingCheck(fn, r, strict) ==
    IF r.status = 0 THEN <<"InvalidHttpResponseError", "Invalid status code">>
    ELSE IF r.reason = "" THEN <<"InvalidHttpResponseError", "Invalid status message">>
    ELSE IF r.body = <<>> THEN <<"InvalidHttpResponseError", "Body is invalid or empty">>
    ELSE IF DOMAIN r.headers = {}
    THEN <<"InvalidHttpResponseError", "Headers are invalid or not specified">>
    ELSE IF r.error THEN <<"HttpError", "none">>
    ELSE IF r.content_type # CONTENT_TYPE_FORM_URLENCODED /\ strict
    THEN <<"InvalidContentTypeError", "none">>
    ELSE IF fn = "parse_temporary_credentials_response" /\ strict
            /\ ~BodyConfirmsCallback(r.body)
    THEN <<"ValueError", "none">>
    ELSE <<"none", "none">>

\* C36: the checks on a response run in a fixed order and the first that fails is
\* the one reported: status, reason, body, headers (InvalidHttpResponseError), the
\* error flag (HttpError), the content type (InvalidContentTypeError, strict
\* only), and for temporary credentials oauth_callback_confirmed.  A response that
\* signals an error and has no body is reported as InvalidHttpResponseError, and
\* an error response or an incomplete one gives no credentials, strict or lenient.
C36_FirstFailingCheckIsReported ==
    Parsed =>
        LET r == parsed.response
        IN  /\ (r.body = <<>> \/ HasCredentials(r)) =>
                   <<parsed.result.err.type, parsed.message>>
                       = FirstFailingCheck(parsed.fn, r, parsed.strict)
            /\ (r.error \/ r.status = 0 \/ r.reason = "" \/ r.body = <<>>
                    \/ DOMAIN r.headers = {}) =>
                   /\ parsed.result.err # NoError
                   /\ parsed.result.credentials = None

C36_Witness ==
    /\ Parsed /\ ~parsed.strict
    /\ parsed.response.error /\ parsed.response.body = <<>>
    /\ parsed.response.status = 200 /\ parsed.response.reason = "OK"
    /\ DOMAIN parsed.response.headers = {}
    /\ parsed.response.content_type = "text/html"
    /\ parsed.result.err.type = "InvalidHttpResponseError"
    /\ parsed.message = "Body is invalid or empty"

C36_CallbackLastWitness ==
    /\ ParsedTemporary /\ parsed.strict
    /\ parsed.response.error
    /\ parsed.response.content_type = "text/html"
    /\ Complete(parsed.response) /\ HasCredentials(parsed.response)
    /\ ~BodyConfirmsCallback(parsed.response.body)
    /\ parsed.result.err.type = "HttpError"

(***************************************************************************)
(* Properties of the verification step.                                    *)
(***************************************************************************)
Verified == parsed.fn = "check_verification_code"

\* C13: check_verification_code fails with TokenMismatch (InvalidHttpRequestError)
\* if and only if the returned oauth_token differs from the temporary credentials'
\* identifier; when they are equal it succeeds whatever the verifier is.
C13_TokenMismatchIffDifferent ==
    Verified =>
        IF parsed.oauth_token = parsed.temporary_credentials.identifier
        THEN parsed.err = NoError
        ELSE parsed.err = Error("InvalidHttpRequestError", "check_verification_code")

C13_Witness ==
    /\ Verified
    /\ parsed.oauth_token = parsed.temporary_credentials.identifier
    /\ parsed.oauth_verifier = ""
    /\ parsed.err = NoError

(***************************************************************************)
(* Properties of the strict flag and of the number of requests.            *)
(***************************************************************************)
\* the client that differs from the one of the state in strict only
Twin == [cfg EXCEPT !.strict = ~cfg.strict]

\* what the call recorded in last builds on the client object client: the
\* error of the local checks, the request and its signature
Construction(client) ==
    LET a == last.args
        req == CASE last.op = "fetch_temporary_credentials" ->
                      ClientRequest(client, a.method, TemporaryCredentialsUri, a.params, a.body,
                                    last.headers, a.realm, None, a.oauth_signature_method,
                                    DictSet(a.kwargs, OAUTH_PARAM_CALLBACK, a.oauth_callback),
                                    a.timestamp, a.nonce)
                 [] last.op = "fetch_token_credentials" ->
                      ClientRequest(client, a.method, TokenCredentialsUri, a.params, a.body,
                                    last.headers, a.realm, Some(a.temporary_credentials),
                                    a.oauth_signature_method,
                                    DictSet(a.kwargs, OAUTH_PARAM_VERIFIER, a.oauth_verifier),
                                    a.timestamp, a.nonce)
                 [] last.op = "fetch" ->
                      ClientRequest(client, a.method, a.url, a.params, a.body,
                                    last.headers, a.realm, Some(a.token_credentials),
                                    a.oauth_signature_method, a.kwargs, a.timestamp, a.nonce)
        early == CASE last.op = "fetch_temporary_credentials" -> CallbackRejected(a.oauth_callback)
                   [] last.op = "fetch_token_credentials" -> CallbackReserved(a.kwargs)
                   [] last.op = "fetch" -> FALSE
    IN  IF early
        THEN [err |-> IF last.op = "fetch_temporary_credentials"
                      THEN Error("ValueError", last.op)
                      ELSE Error("IllegalArgumentError", last.op),
              request |-> None, signature |-> None]
        ELSE [err |-> req.err, request |-> req.request, signature |-> req.signature]

\* what the call recorded in last did before any response was looked at
Constructed ==
    [err |-> IF last.sent THEN NoError ELSE last.err,
     request |-> last.request, signature |-> last.signature]

\* C22: the client that differs only in strict, given the same arguments,
\* headers, nonce and timestamp, builds the same request (URL, headers, body,
\* signature) and raises the same request-construction error.
C22_StrictDoesNotChangeRequests ==
    Called => /\ Construction(Twin) = Constructed
              /\ Construction(cfg) = Constructed

\* a lenient client sent a request whose response it accepts and a strict
\* client rejects
C22_Witness ==
    /\ Called /\ last.sent /\ ~cfg.strict
    /\ last.op = "fetch_temporary_credentials"
    /\ last.response # None
    /\ last.err = NoError
    /\ ParseTemporaryCredentialsResponse(last.response, TRUE).err # NoError

\* C23: the engine never retries. A step that is an invocation of
\* fetch_temporary_credentials, fetch_token_credentials or fetch hands one request
\* to the transport when its local checks pass, whatever becomes of the response,
\* and none when a local check fails; no other step (the continuation parsing
\* its response, successfully or not) hands anything to the transport.
C23_NeverRetries ==
    [][/\ calls' # calls =>
            /\ calls' = calls + 1
            /\ last'.sent => transport' = transport + 1
            /\ ~last'.sent => last'.err # NoError /\ transport' = transport
       /\ calls' = calls => transport' = transport]_vars

\* a first call sent its request and got a response that fails parsing, the
\* second failed a local check: one request in all
C23_Witness ==
    /\ calls = 2
    /\ transport = 1
    /\ ~last.sent
    /\ last.err # NoError

\* a response that failed parsing after the only request of the call
C23_ParseFailureWitness ==
    /\ calls = 1
    /\ transport = 1
    /\ last.sent
    /\ last.response # None
    /\ last.err # NoError

(***************************************************************************)
(* Properties of what is signed.                                           *)
(***************************************************************************)
\* the call was signed: its protocol parameters were generated and a signature made
Signed == Called /\ last.signature # None

\* the values of name k in a mapping, none when the name is absent
ValuesIn(q, k) == IF k \in DOMAIN q THEN q[k] ELSE <<>>

\* the caller's headers say the body is application/x-www-form-urlencoded
FormContentType(headers) ==
    \/ /\ HEADER_CONTENT_TYPE \in DOMAIN headers
       /\ headers[HEADER_CONTENT_TYPE] = CONTENT_TYPE_FORM_URLENCODED
    \/ /\ HEADER_CONTENT_TYPE \notin DOMAIN headers
       /\ HEADER_CONTENT_TYPE_CAPS \in DOMAIN headers
       /\ headers[HEADER_CONTENT_TYPE_CAPS] = CONTENT_TYPE_FORM_URLENCODED

\* the names without the oauth_ prefix that the call knows of
PlainNames ==
    {k \in DOMAIN MergeSegments(TargetUrl.query) \cup DOMAIN last.args.params
            \cup DOMAIN MergeSegments(last.args.body) : ~IsOAuthName(k)}

\* C33: of a request with a body, the parameters of the body that have no oauth_
\* prefix are signed when the caller's Content-Type is
\* application/x-www-form-urlencoded; with any other Content-Type, or none, the
\* body adds nothing to what is signed and the request is built all the same;
\* the body is sent as the caller gave it.
C33_FormBodyIsSigned ==
    (Signed /\ last.args.body # <<>>) =>
        LET form == FormContentType(last.headers)
            sig == last.signature[1]
        IN  /\ sig.text # None =>
                \A k \in PlainNames :
                    ValuesIn(sig.text[1].params, k)
                        = ValuesIn(MergeSegments(TargetUrl.query), k)
                            \o ValuesIn(last.args.params, k)
                            \o (IF form THEN ValuesIn(MergeSegments(last.args.body), k)
                                ELSE <<>>)
            /\ last.sent <=> /\ ~HasAuthorization(last.headers)
                             /\ HasContentLength(last.headers)
                             /\ Upper(last.args.method) # HTTP_GET
            /\ last.sent => last.request[1].body = last.args.body

C33_Witness ==
    /\ Signed /\ last.sent
    /\ last.args.body = <<(PARAM_B :> <<"2">>)>>
    /\ FormContentType(last.headers)
    /\ last.signature[1].text # None
    /\ ValuesIn(last.signature[1].text[1].params, PARAM_B) = <<"2">>

\* the body is sent but not signed: its Content-Type is text/plain
C33_UnsignedBodyWitness ==
    /\ Signed /\ last.sent
    /\ last.args.body = <<(PARAM_B :> <<"2">>)>>
    /\ HEADER_CONTENT_TYPE \in DOMAIN last.headers
    /\ ~FormContentType(last.headers)
    /\ last.signature[1].text # None
    /\ ValuesIn(last.signature[1].text[1].params, PARAM_B) = <<>>
    /\ last.request[1].body = last.args.body

\* a request was assembled from a signature made over a base string
AssembledFromText == Called /\ last.request # None /\ last.signature[1].text # None

OAuthPart(q) == Restrict(q, {k \in DOMAIN q : IsOAuthName(k)})
PlainPart(q) == Restrict(q, {k \in DOMAIN q : ~IsOAuthName(k)})

\* the request declares its entity body application/x-www-form-urlencoded
DeclaresFormBody(req) ==
    \E h \in {HEADER_CONTENT_TYPE, HEADER_CONTENT_TYPE_CAPS} :
        h \in DOMAIN req.headers /\ req.headers[h] = CONTENT_TYPE_FORM_URLENCODED

\* the oauth_ parameters a server reads from a request: those of the
\* Authorization header, of the URL query and of a form-encoded body
TransmittedOAuth(req) ==
    query_add(
        query_add(IF HEADER_AUTHORIZATION_CAPS \in DOMAIN req.headers
                  THEN query_unflatten(req.headers[HEADER_AUTHORIZATION_CAPS].params)
                  ELSE EmptyDict,
                  OAuthPart(MergeSegments(req.url.query))),
        IF DeclaresFormBody(req) THEN OAuthPart(MergeSegments(req.body)) ELSE EmptyDict)

\* the signed protocol parameters and the signature made over them
SignedAndSignature ==
    query_add(OAuthPart(last.signature[1].text[1].params),
              (OAUTH_PARAM_SIGNATURE :> <<last.signature[1]>>))

\* the parameters without oauth_ prefix that the engine puts in the request: in
\* the URL query, and in the body when the caller gave none
TransmittedPlain(req) ==
    query_add(PlainPart(MergeSegments(req.url.query)),
              IF last.args.body = <<>> THEN PlainPart(MergeSegments(req.body)) ELSE EmptyDict)

\* the signature does not cover itself or the realm, the realm is sent in the
\* header, and the URL query and the extra parameters signed are those sent
SignedBeforeAssembly ==
    LET req == last.request[1]
        signed == last.signature[1].text[1].params
    IN  /\ OAUTH_PARAM_SIGNATURE \notin DOMAIN signed
        /\ <<"realm">> \notin DOMAIN signed
        /\ cfg.use_authorization_header =>
               req.headers[HEADER_AUTHORIZATION_CAPS].realm = last.args.realm
        /\ \A k \in DOMAIN PlainPart(signed) \cup DOMAIN TransmittedPlain(req) :
               ValuesIn(signed, k)
                   = ValuesIn(TransmittedPlain(req), k)
                       \o (IF last.args.body # <<>> /\ FormContentType(last.headers)
                           THEN ValuesIn(MergeSegments(last.args.body), k) ELSE <<>>)

\* the protocol parameters the engine puts in the request are the signed ones
\* and the signature
C34_EngineParametersAreTheSignedOnes ==
    AssembledFromText =>
        /\ SignedBeforeAssembly
        /\ ProtocolParams(last.request[1]) = SignedAndSignature

C34_EngineWitness ==
    /\ AssembledFromText
    /\ last.args.realm = "Example"
    /\ cfg.use_authorization_header
    /\ PARAM_A \in DOMAIN last.signature[1].text[1].params
    /\ OAUTH_PARAM_TOKEN \in DOMAIN last.signature[1].text[1].params

\* C34: the signature is made before oauth_signature is added and before the
\* request is assembled: it does not cover itself; in every assembled request the
\* OAuth protocol parameters transmitted are exactly the signed protocol
\* parameters and oauth_signature; the realm is sent in the header and not signed;
\* the URL query and the extra parameters signed are those transmitted.
C34_TransmittedIsSignedPlusSignature ==
    AssembledFromText =>
        /\ SignedBeforeAssembly
        /\ TransmittedOAuth(last.request[1]) = SignedAndSignature

\* the oauth_ keyword arguments _request receives: the caller's, and the
\* callback or the verifier the operation adds
OAuthKwargs ==
    LET given == ExtraOAuthParams(last.args.kwargs)
    IN  CASE last.op = "fetch_temporary_credentials" ->
                 DictSet(given, OAUTH_PARAM_CALLBACK, last.args.oauth_callback)
          [] last.op = "fetch_token_credentials" ->
                 DictSet(given, OAUTH_PARAM_VERIFIER, last.args.oauth_verifier)
          [] last.op = "fetch" -> given

\* the names and values of the set the engine generates
GeneratedSet ==
    LET fixed ==
            (OAUTH_PARAM_CONSUMER_KEY :> ClientCredentials.identifier)
            @@ (OAUTH_PARAM_SIGNATURE_METHOD :> last.args.oauth_signature_method)
            @@ (OAUTH_PARAM_TIMESTAMP :> last.args.timestamp)
            @@ (OAUTH_PARAM_NONCE :> last.args.nonce)
            @@ (OAUTH_PARAM_VERSION :> OAUTH_VERSION_1)
    IN  CASE last.op = "fetch_temporary_credentials" -> fixed
          [] last.op = "fetch_token_credentials" ->
                 DictSet(fixed, OAUTH_PARAM_TOKEN, last.args.temporary_credentials.identifier)
          [] last.op = "fetch" ->
                 DictSet(fixed, OAUTH_PARAM_TOKEN, last.args.token_credentials.identifier)

\* every oauth_ parameter of q has one value, that of the keyword argument of
\* its name or else that of the generated set; oauth_signature is the signature
FromEngineOrKwargs(q) ==
    \A k \in DOMAIN q :
        IsOAuthName(k) =>
            IF k = OAUTH_PARAM_SIGNATURE THEN q[k] = <<last.signature[1]>>
            ELSE IF k \in DOMAIN OAuthKwargs THEN q[k] = <<OAuthKwargs[k]>>
            ELSE k \in DOMAIN GeneratedSet /\ q[k] = <<GeneratedSet[k]>>

\* the oauth_ parameters of the Authorization header, of the URL query and of the
\* body the engine assembles when the caller gave none
AssembledOAuth(req) ==
    query_add(
        query_add(IF HEADER_AUTHORIZATION_CAPS \in DOMAIN req.headers
                  THEN query_unflatten(req.headers[HEADER_AUTHORIZATION_CAPS].params)
                  ELSE EmptyDict,
                  OAuthPart(MergeSegments(req.url.query))),
        IF last.args.body = <<>> THEN OAuthPart(MergeSegments(req.body)) ELSE EmptyDict)

\* C37: an oauth_ parameter given in params or in the query string of the URL is
\* removed before signing and sending: the OAuth protocol parameters of every
\* request sent, and those signed, come only from the set the engine generates
\* (consumer key, signature method, timestamp, nonce, token and version if any,
\* signature) and from the oauth_ keyword arguments.
C37_ProtocolParamsOnlyFromEngine ==
    (Called /\ last.request # None) =>
        /\ FromEngineOrKwargs(AssembledOAuth(last.request[1]))
        /\ last.signature[1].text # None =>
               FromEngineOrKwargs(last.signature[1].text[1].params)

C37_Witness ==
    /\ Called /\ last.sent /\ last.op = "fetch"
    /\ OAUTH_PARAM_NONCE \in DOMAIN MergeSegments(last.args.url.query)
    /\ OAUTH_PARAM_TOKEN \in DOMAIN last.args.params
    /\ DOMAIN last.args.kwargs = {}
    /\ ~cfg.use_authorization_header
    /\ last.signature[1].text # None
    /\ AssembledOAuth(last.request[1])[OAUTH_PARAM_TOKEN] = <<TokenCredentials.identifier>>
    /\ AssembledOAuth(last.request[1])[OAUTH_PARAM_NONCE] = <<last.args.nonce>>

(***************************************************************************)
(* Properties of the redirect URLs.                                        *)
(***************************************************************************)
Redirected == redirect.fn # "none" /\ redirect.err = NoError

RedirectEndpoint ==
    IF redirect.fn = "get_authorization_url" THEN cfg.authorization_uri
    ELSE cfg.authentication_uri[1]

\* the names of a query string, segment by segment
NamesOf(segs) == UNION {DOMAIN segs[i] : i \in 1..Len(segs)}

\* C21: the authorization URL, and the authentication URL, is the configured
\* endpoint, then the caller's parameters that have no oauth_ prefix, then
\* oauth_token with the temporary credentials' identifier as the last parameter;
\* it holds exactly one oauth_token and no other oauth_ parameter.
C21_RedirectUrlEndsWithToken ==
    Redirected =>
        LET url == redirect.url[1]
            n == Len(url.query)
            front == SubSeq(url.query, 1, n - 1)
        IN  /\ url.base = RedirectEndpoint.base
            /\ n >= 1
            /\ url.query[n] = (OAUTH_PARAM_TOKEN :> <<redirect.temporary_credentials.identifier>>)
            /\ \A k \in NamesOf(front) : ~IsOAuthName(k)
            /\ \A k \in DOMAIN redirect.query_params :
                   IF IsOAuthName(k) THEN k \notin NamesOf(front)
                   ELSE /\ front # <<>>
                        /\ k \in DOMAIN front[Len(front)]
                        /\ front[Len(front)][k] = <<redirect.query_params[k]>>
            /\ \A k \in NamesOf(RedirectEndpoint.query) :
                   ~IsOAuthName(k) =>
                       QueryValues(front, k)[1] = QueryValues(RedirectEndpoint.query, k)[1]

C21_Witness ==
    /\ Redirected
    /\ redirect.fn = "get_authentication_url"
    /\ OAUTH_PARAM_TOKEN \in DOMAIN redirect.query_params
    /\ PARAM_A \in DOMAIN redirect.query_params
    /\ OAUTH_PARAM_TOKEN \in NamesOf(cfg.authentication_uri[1].query)
    /\ Len(redirect.url[1].query) = 2

(***************************************************************************)
(* Properties of the normalized query string.                              *)
(***************************************************************************)
Normalized == bs.fn = "oauth_get_normalized_query_string"

\* the rearrangements of a sequence
Perms(seq) ==
    {[i \in 1..Len(seq) |-> seq[f[i]]] :
        f \in {g \in [1..Len(seq) -> 1..Len(seq)] :
                  \A i, j \in 1..Len(seq) : g[i] = g[j] => i = j}}

\* the orders a mapping can hand its names out in
NameOrders(names) ==
    {f \in [1..Cardinality(names) -> names] :
        \A i, j \in 1..Cardinality(names) : f[i] = f[j] => i = j}

\* the mappings with the names of query_params and, for each name, the values of
\* query_params in some order
Rearranged(query_params) ==
    LET choices(k) == IF query_params[k].kind = "list"
                      THEN {ListValue(p) : p \in Perms(query_params[k].items)}
                      ELSE {query_params[k]}
    IN  {r \in [DOMAIN query_params -> UNION {choices(k) : k \in DOMAIN query_params}] :
            \A k \in DOMAIN query_params : r[k] \in choices(k)}

\* the normalized query string of the pairs collected name by name in the order given
NormalizedInOrder(order, query_params) ==
    LET sorted == Sorted(Concat([i \in 1..Len(order) |->
                                    EncodedPairsOf(order[i], query_params[order[i]])]))
    IN  Join(<<38>>, [i \in 1..Len(sorted) |-> sorted[i][1] \o <<61>> \o sorted[i][2]])

\* the name=value entries of a query string, as they are written
WrittenPairs(value) ==
    IF value = <<>> THEN <<>>
    ELSE [i \in 1..Len(Split(value, 38)) |->
            <<Split1(Split(value, 38)[i], 61)[1], Split1(Split(value, 38)[i], 61)[2]>>]

ReservedNames == {BaseParamSignature, BaseParamRealm}

\* C24: the normalized query string lists the percent-encoded (name, value) pairs
\* in ascending order of encoded name and then of encoded value; it is the same
\* for every order of the names and every order of the values of a name; the
\* empty mapping gives the empty string.
C24_NormalizedIsSortedAndOrderInsensitive ==
    Normalized =>
        LET pairs == WrittenPairs(bs.value)
        IN  /\ \A i \in 1..(Len(pairs) - 1) : ~PairLess(pairs[i + 1], pairs[i])
            /\ \A k \in (DOMAIN bs.query_params) \ ReservedNames :
                   \A i \in 1..Len(ValuesOf(bs.query_params[k])) :
                       LET x == ValuesOf(bs.query_params[k])[i]
                       IN  Count(pairs, <<oauth_escape(k), oauth_escape(x)>>)
                               = Count(ValuesOf(bs.query_params[k]), x)
            /\ \A r \in Rearranged(bs.query_params) :
                   /\ oauth_get_normalized_query_string(r) = bs.value
                   /\ \A order \in NameOrders(DOMAIN r) :
                          NormalizedInOrder(order, r) = bs.value
            /\ bs.query_params = EmptyDict => bs.value = <<>>

C24_Witness ==
    /\ Normalized
    /\ bs.query_params = (BaseParamA :> IntValue(1))
                            @@ (BaseParamB :> ListValue(<<IntValue(8), IntValue(2), IntValue(4)>>))
    /\ bs.value = B(<<"a","=","1","&","b","=","2","&","b","=","4","&","b","=","8">>)

\* a mapping without its oauth_signature and realm entries
WithoutReserved(query_params) == Restrict(query_params, (DOMAIN query_params) \ ReservedNames)

\* the number of values a mapping holds
ValueCount(query_params) ==
    SetSum(DOMAIN query_params, [k \in DOMAIN query_params |-> Len(ValuesOf(query_params[k]))])

\* the base string of a method, a URL and a mapping whose oauth_signature and
\* realm entries, in the URL's query string and in the mapping, are taken away
BaseWithoutReserved(method, url, query_params) ==
    LET normalized == oauth_get_normalized_url_and_query_params(url)
    IN  Join(<<38>>,
             <<oauth_escape(StrUpper(method)),
               oauth_escape(normalized.normalized_url),
               oauth_escape(oauth_get_normalized_query_string(
                   MergeParams(WithoutReserved(normalized.query_params),
                               WithoutReserved(query_params))))>>)

\* oauth_signature and realm entries, in the mapping or in the URL's query
\* string, change neither the normalized query string nor the base string
C25_ReservedNamesLeftOut ==
    /\ Normalized =>
           bs.value = oauth_get_normalized_query_string(WithoutReserved(bs.query_params))
    /\ BaseBuilt =>
           bs.value = BaseWithoutReserved(bs.method, bs.url, bs.query_params)

C25_ReservedWitness ==
    /\ BaseBuilt
    /\ BaseParamRealm \in DOMAIN oauth_parse_qs(bs.url.query)
    /\ BaseParamSignature \in DOMAIN bs.query_params
    /\ Len(BasePairs(bs.value)) = 2

\* C25: oauth_signature and realm never contribute to the normalized query string
\* or to the base string, whether they are in the caller's mapping or in the URL's
\* query string, and every other parameter, of the mapping and of the URL,
\* contributes one name=value pair for each of its values.
C25_OnlyReservedNamesLeftOut ==
    /\ C25_ReservedNamesLeftOut
    /\ Normalized =>
           Len(WrittenPairs(bs.value)) = ValueCount(WithoutReserved(bs.query_params))
    /\ BaseBuilt =>
           Len(BasePairs(bs.value))
               = ValueCount(WithoutReserved(oauth_parse_qs(bs.url.query)))
                   + ValueCount(WithoutReserved(bs.query_params))

(***************************************************************************)
(* Properties of the signature base string.                                *)
(***************************************************************************)
BaseCalled == bs.fn = "oauth_get_signature_base_string"

\* the parameter string the base string is made of: the normalized query string
\* of the URL's parameters and the caller's
BaseParameterString ==
    oauth_get_normalized_query_string(
        MergeParams(oauth_parse_qs(bs.url.query), bs.query_params))

\* C26: the base string is escape(METHOD) & escape(normalized URL) &
\* escape(parameter string), the URL without its query string and fragment: it has
\* exactly two '&', no '=', and its third part decodes to the parameter string, so
\* a '%' of the parameter string is written %25.
C26_BaseStringIsThreeEscapedParts ==
    BaseBuilt =>
        LET parts == Split(bs.value, 38)
            normalized_url == StrLower(bs.url.scheme) \o B(<<":", "/", "/">>)
                                \o StrLower(bs.url.netloc) \o bs.url.path
        IN  /\ Count(bs.value, 38) = 2
            /\ Count(bs.value, 61) = 0
            /\ Len(parts) = 3
            /\ parts[1] = oauth_escape(StrUpper(bs.method))
            /\ parts[2] = oauth_escape(normalized_url)
            /\ parts[3] = oauth_escape(BaseParameterString)
            /\ Unquote(parts[3]) = BaseParameterString
            /\ Count(parts[3], 37) >= Count(BaseParameterString, 37)
                                        + Count(BaseParameterString, 38)
                                        + Count(BaseParameterString, 61)

\* the URL's b=%20x is the value ' x', written b=%20x in the parameter string
\* and b%3D%2520x in the base string
C26_Witness ==
    /\ BaseBuilt
    /\ bs.url.query = B(<<"b","=","%","2","0","x","&","a","=","1">>)
    /\ bs.query_params = EmptyDict
    /\ BaseParameterString = B(<<"a","=","1","&","b","=","%","2","0","x">>)
    /\ Split(bs.value, 38)[3] = B(<<"a","%","3","D","1","%","2","6","b","%","3","D","%","2","5","2","0","x">>)

\* C27: oauth_get_signature_base_string returns a base string exactly when the
\* method passed, put in upper case, is one of POST, PUT, GET, DELETE, OPTIONS,
\* TRACE, HEAD, CONNECT, PATCH, and the base string begins with the method in
\* upper case; for every other method it raises ValueError and returns nothing.
C27_MethodCheckedInUpperCase ==
    BaseCalled =>
        /\ bs.err = NoError <=> StrUpper(bs.method) \in allowed_methods
        /\ bs.err = NoError => Split(bs.value, 38)[1] = StrUpper(bs.method)
        /\ bs.err # NoError =>
               /\ bs.err = Error("ValueError", "oauth_get_signature_base_string")
               /\ bs.value = <<>>

\* a method in lower case is accepted
C27_Witness ==
    /\ BaseBuilt
    /\ bs.method = B(<<"g","e","t">>)
    /\ Split(bs.value, 38)[1] = B(<<"G","E","T">>)

\* C27 as the specification states it: a base string only when the method passed
\* is itself one of the allowed methods in upper case
C27_OnlyUpperCaseMethodsAccepted ==
    BaseCalled => (bs.err = NoError <=> bs.method \in allowed_methods)

(***************************************************************************)
(* Properties of oauth_escape, oauth_parse_qs and the PLAINTEXT signature. *)
(***************************************************************************)
Escaped == bs.fn = "oauth_escape"

\* ALPHA, DIGIT, '-', '.', '_', '~'
UnreservedBytes == (65..90) \cup (97..122) \cup (48..57) \cup {45, 46, 95, 126}

\* 0-9 and A-F
UpperHexBytes == (48..57) \cup (65..70)

\* s is made of unreserved characters and %XX triplets in upper-case hex only
RECURSIVE OnlyUnreservedAndTriplets(_)
OnlyUnreservedAndTriplets(s) ==
    IF s = <<>> THEN TRUE
    ELSE IF s[1] \in UnreservedBytes THEN OnlyUnreservedAndTriplets(Tail(s))
    ELSE /\ s[1] = 37
         /\ Len(s) >= 3
         /\ s[2] \in UpperHexBytes
         /\ s[3] \in UpperHexBytes
         /\ OnlyUnreservedAndTriplets(SubSeq(s, 4, Len(s)))

\* the bytes oauth_escape is given: those of a byte string, the UTF-8 ones of a
\* Unicode string
GivenBytes(val) ==
    IF val.unicode
    THEN Concat([i \in 1..Len(val.chars) |->
                   IF val.chars[i] < 128 THEN <<val.chars[i]>>
                   ELSE <<192 + (val.chars[i] \div 64), 128 + (val.chars[i] % 64)>>])
    ELSE val.chars

\* C28: the output of oauth_escape is made of unreserved characters and %XX
\* triplets with upper-case hex digits only; an unreserved byte is written as it
\* is and every other byte as its triplet, so the output has no space and no '+'.
C28_EscapeLeavesOnlyUnreserved ==
    Escaped =>
        LET given == GivenBytes(bs.val)
        IN  /\ OnlyUnreservedAndTriplets(bs.value)
            /\ Unquote(bs.value) = given
            /\ Len(bs.value)
                 = SeqSum([i \in 1..Len(given) |-> IF given[i] \in UnreservedBytes THEN 1 ELSE 3])
            /\ Count(bs.value, 43) = 0
            /\ Count(bs.value, 32) = 0

C28_Witness ==
    /\ Escaped
    /\ bs.val = Bytes(B(<<"a"," ","b","+","c">>))
    /\ bs.value = B(<<"a","%","2","0","b","%","2","B","c">>)

PlaintextSigned == bs.fn = "oauth_get_plaintext_signature"

\* the token secret, the empty string when there is none
TokenSecretOrEmpty(token_secret) == IF token_secret = None THEN <<>> ELSE token_secret[1]

\* C29: the PLAINTEXT signature is escape(consumer_secret), '&',
\* escape(token_secret or ""), with exactly one '&'; it is the same for every
\* method, URL and parameter mapping.
C29_PlaintextIsTheTwoSecrets ==
    PlaintextSigned =>
        /\ bs.value = oauth_escape(bs.consumer_secret) \o <<38>>
                          \o oauth_escape(TokenSecretOrEmpty(bs.token_secret))
        /\ Count(bs.value, 38) = 1
        /\ \A method \in BaseMethods, url \in BaseUrls, query_params \in BaseParams :
               oauth_get_plaintext_signature(bs.consumer_secret, method, url, query_params,
                                             bs.token_secret) = bs.value

C29_Witness ==
    /\ PlaintextSigned
    /\ bs.consumer_secret = B(<<"a","&","b">>)
    /\ bs.token_secret = Some(B(<<"c"," ","d","&">>))
    /\ bs.method = B(<<"T","Y","P","O">>)
    /\ bs.value = B(<<"a","%","2","6","b","&","c","%","2","0","d","%","2","6">>)

\* no token secret: the '&' is still there
C29_NoTokenWitness ==
    /\ PlaintextSigned
    /\ bs.consumer_secret = B(<<"a","b","c","d">>)
    /\ bs.token_secret = None
    /\ bs.value = B(<<"a","b","c","d","&">>)

ParsedEscaped == bs.fn = "oauth_parse_qs"

\* C30: a value written by oauth_escape as the value of name=value is read back
\* by oauth_parse_qs as the one value of that name, byte for byte.
C30_EscapeThenParseIsIdentity ==
    ParsedEscaped =>
        bs.value = (BaseParamA :> ListValue(<<StrValue(GivenBytes(bs.val))>>))

\* a value with a space, a plus sign, a percent and the separators
C30_Witness ==
    /\ ParsedEscaped
    /\ bs.val = Bytes(B(<<"/","&","=","%","2","0">>))
    /\ bs.qs = B(<<"a","=","%","2","F","%","2","6","%","3","D","%","2","5","2","0">>)
    /\ bs.value[BaseParamA].items[1].str = B(<<"/","&","=","%","2","0">>)

\* the blank value is kept
C30_BlankWitness ==
    /\ ParsedEscaped
    /\ bs.val = Bytes(<<>>)
    /\ bs.value = (BaseParamA :> ListValue(<<StrValue(<<>>)>>))

(***************************************************************************)
(* Properties of the normalized URL.                                       *)
(***************************************************************************)
UrlNormalized == bs.fn = "oauth_get_normalized_url_and_query_params"

\* the scheme, the authority and the path of a URL as RFC 3986 cuts it: the
\* authority ends at the first '/', '?' or '#', the path at the first '?' or '#'
SchemeOf(url) == SubSeq(url, 1, Find(url, {58}) - 1)
AfterScheme(url) == SubSeq(url, Find(url, {58}) + 3, Len(url))
AuthorityOf(url) ==
    IF Find(AfterScheme(url), {47, 63, 35}) = 0 THEN AfterScheme(url)
    ELSE SubSeq(AfterScheme(url), 1, Find(AfterScheme(url), {47, 63, 35}) - 1)
AfterAuthority(url) ==
    SubSeq(AfterScheme(url), Len(AuthorityOf(url)) + 1, Len(AfterScheme(url)))
PathOf(url) ==
    IF Find(AfterAuthority(url), {63, 35}) = 0 THEN AfterAuthority(url)
    ELSE SubSeq(AfterAuthority(url), 1, Find(AfterAuthority(url), {63, 35}) - 1)
QueryOf(url) ==
    LET nofrag == IF Find(AfterAuthority(url), {35}) = 0 THEN AfterAuthority(url)
                  ELSE SubSeq(AfterAuthority(url), 1, Find(AfterAuthority(url), {35}) - 1)
    IN  IF Find(nofrag, {63}) = 0 THEN <<>>
        ELSE SubSeq(nofrag, Find(nofrag, {63}) + 1, Len(nofrag))

\* the values of name k in the name=value entries of a query string, in order
RECURSIVE ValuesInOrder(_, _)
ValuesInOrder(pairs, k) ==
    IF pairs = <<>> THEN <<>>
    ELSE (IF Head(pairs)[1] = k THEN <<Head(pairs)[2]>> ELSE <<>>)
            \o ValuesInOrder(Tail(pairs), k)

\* the mapping returned holds every name of the query string with its values in
\* the order they are written, blank ones included
ParamsKeptInOrder ==
    LET pairs == ParseQsl(QueryOf(bs.url))
        names == {pairs[i][1] : i \in 1..Len(pairs)}
    IN  /\ DOMAIN bs.value.query_params = names
        /\ \A k \in names :
               ValuesOf(bs.value.query_params[k]) = ValuesInOrder(pairs, k)

\* normalizing the URL returned gives it back, with no parameters
NormalizedAgainUnchanged ==
    /\ bs.again.normalized_url = bs.value.normalized_url
    /\ bs.again.query_params = EmptyDict

\* the URL returned is the lower-cased scheme, the lower-cased authority and
\* the path up to the parameters of its last segment
C31_NormalizedUrlWithoutPathParameters ==
    UrlNormalized =>
        /\ bs.value.normalized_url
             = StrLower(SchemeOf(bs.url)) \o B(<<":", "/", "/">>)
                 \o StrLower(AuthorityOf(bs.url)) \o urlparse(bs.url).path
        /\ ParamsKeptInOrder
        /\ NormalizedAgainUnchanged

C31_OrderWitness ==
    /\ UrlNormalized
    /\ bs.value.normalized_url = B(<<"h","t","t","p",":","/","/","e","x",".","c","o","m","/","r">>)
    /\ {B(<<"a","3">>), B(<<"c","2">>)} \subseteq DOMAIN bs.value.query_params
    /\ bs.value.query_params[B(<<"a","3">>)]
         = ListValue(<<StrValue(B(<<"a">>)), StrValue(B(<<"2"," ","q">>))>>)
    /\ bs.value.query_params[B(<<"c","2">>)] = ListValue(<<StrValue(<<>>)>>)

\* C31: oauth_get_normalized_url_and_query_params returns the lower-cased scheme,
\* the lower-cased authority and the unchanged path of the URL, without query
\* string and fragment, and the parameters of the query string as a mapping from
\* name to the list of its values, in order and with the blank ones; normalizing
\* the URL returned gives it back with an empty mapping.
C31_NormalizedUrlKeepsPath ==
    UrlNormalized =>
        /\ bs.value.normalized_url
             = StrLower(SchemeOf(bs.url)) \o B(<<":", "/", "/">>)
                 \o StrLower(AuthorityOf(bs.url)) \o PathOf(bs.url)
        /\ ParamsKeptInOrder
        /\ NormalizedAgainUnchanged

(***************************************************************************)
(* Properties of the verification code.                                    *)
(***************************************************************************)
CodeGenerated == bs.fn = "oauth_generate_verification_code"

\* 0-9, a-f, A-F
HexDigitBytes == (48..57) \cup (97..102) \cup (65..70)

\* the code is the beginning of the nonce, hexadecimal digits only, and as long
\* as asked for up to the length of the nonce
C32_CodeIsBeginningOfNonce ==
    CodeGenerated =>
        /\ Len(bs.nonce) = 32
        /\ Len(bs.value) = (IF bs.length <= 32 THEN bs.length ELSE 32)
        /\ bs.value = SubSeq(bs.nonce, 1, Len(bs.value))
        /\ \A i \in 1..Len(bs.value) : bs.value[i] \in HexDigitBytes

C32_DefaultWitness ==
    /\ CodeGenerated
    /\ bs.length = DefaultCodeLength
    /\ bs.value = B(<<"1","d","0","9","a","8","9","3">>)

\* C32: oauth_generate_verification_code(length) returns exactly length
\* characters for every requested length, each a hexadecimal digit of the nonce.
C32_CodeHasRequestedLength ==
    CodeGenerated =>
        /\ Len(bs.value) = bs.length
        /\ bs.value = SubSeq(bs.nonce, 1, Len(bs.value))
        /\ \A i \in 1..Len(bs.value) : bs.value[i] \in HexDigitBytes

====
